---- MODULE Spec2Model ----
(***************************************************************************)
(* Credential & session manager of ExcaliDash (backend auth module):       *)
(* login rate limiter, session table, authentication gate, credential     *)
(* initialisation and verification.                                        *)
(*                                                                         *)
(* Time is the value of Date.now() in milliseconds.  Strings that the     *)
(* code inspects character by character (usernames, passwords) are        *)
(* sequences of UTF-16 code units; client addresses and session tokens    *)
(* are opaque and are TLA+ strings / numbers.  A JavaScript Map is a      *)
(* function whose DOMAIN is the set of keys present.                      *)
(***************************************************************************)
EXTENDS Integers, Sequences, FiniteSets, TLC

\* ---------------------------------------------------------------- constants

SESSION_EXPIRY_MS == 24 * 60 * 60 * 1000
LOGIN_RATE_LIMIT_WINDOW == 15 * 60 * 1000
LOGIN_MAX_ATTEMPTS == 5
BCRYPT_ROUNDS == 12
\* the literal 256 of Math.max(username.length, adminUsername.length, 256)
MIN_BUFFER_LENGTH == 256
\* the literal 1000 of Math.ceil((attempts.resetTime - now) / 1000)
MS_PER_SECOND == 1000

\* ------------------------------------------------------------------- bounds

\* calls of loginRateLimit in one behaviour
MaxReqs == 7
\* clock advances in one behaviour
MaxTicks == 3
\* calls of createSession in one behaviour
MaxSessions == 2
\* calls of the session operations and of requireAuth in one behaviour
MaxOps == 4
\* calls of verifyCredentials in one behaviour
MaxCalls == 2
\* calls of initializeAuth in one behaviour
MaxInits == 2
\* changes of process.env in one behaviour
MaxEnvChanges == 1
\* pieces a string passed to a sanitizer is put together from
MaxChunks == 3
\* elements of a drawing put together from the pool of elements
MaxElements == 2

\* ------------------------------------------------------------------- inputs

\* (req.ip, req.socket.remoteAddress) of the requests; "" is a missing value
Clients == { <<"10.0.0.1", "10.0.0.9">>, <<"", "10.0.0.2">> }

\* clock advances tried around the rate-limit window
RateDeltas == { 1, LOGIN_RATE_LIMIT_WINDOW - 1 }

\* clock advances tried around the session lifetime
SessionDeltas == { 1, SESSION_EXPIRY_MS }

\* how far the clock may move between the two Date.now() reads of createSession
ClockSkews == { 0, 1 }

\* the n-th value of crypto.randomBytes(32).toString("hex"): never repeats
Token(n) == "tok" \o ToString(n)

\* a token no createSession ever returns
ForgedToken == "forged"

\* a string of n code units c
Rep(c, n) == [i \in 1..n |-> c]

\* "admin"
Admin == <<97, 100, 109, 105, 110>>
\* "admiN"
AdmiN == <<97, 100, 109, 105, 78>>
\* "admin" followed by U+0000
AdminNul == <<97, 100, 109, 105, 110, 0>>
\* 129 times U+00E9 (2 bytes each in UTF-8)
LongA == Rep(233, 129)
\* 128 times U+00E9, then "x"
LongB == Rep(233, 128) \o <<120>>
\* two spaces
Blank == <<32, 32>>
\* "passw0rd"
Good == <<112, 97, 115, 115, 119, 48, 114, 100>>
\* "password"
Bad == <<112, 97, 115, 115, 119, 111, 114, 100>>
\* "passw0r"
Short7 == <<112, 97, 115, 115, 119, 48, 114>>

\* the usernames and passwords callers supply
Usernames == { Admin, AdmiN, AdminNul, LongA, LongB }
Passwords == { Good, Bad }

\* the usernames tried while initialisation is examined
ShortUsernames == { Admin, AdmiN }

\* the credential configurations process.env may hold
Configs ==
    { [ADMIN_USERNAME |-> Admin, ADMIN_PASSWORD |-> Good],
      [ADMIN_USERNAME |-> LongA, ADMIN_PASSWORD |-> Good],
      [ADMIN_USERNAME |-> Blank, ADMIN_PASSWORD |-> Good],
      [ADMIN_USERNAME |-> Admin, ADMIN_PASSWORD |-> Short7],
      [ADMIN_PASSWORD |-> Good],
      [ADMIN_USERNAME |-> Admin] }

\* process.env of a configured production deployment
Production ==
    [NODE_ENV |-> "production", ADMIN_USERNAME |-> Admin, ADMIN_PASSWORD |-> Good]

\* process.env at start-up: the configured deployment, and a process started
\* with nothing set
InitialEnvs == { Production, << >> }

\* process.env at start-up of the deployments whose verification is examined:
\* the configured one, and one with a long non-ASCII administrator name
VerifyEnvs == { Production, [ADMIN_USERNAME |-> LongA, ADMIN_PASSWORD |-> Good] }

\* the configurations process.env is changed to while initialisation runs
CredConfigs ==
    { [ADMIN_USERNAME |-> Admin, ADMIN_PASSWORD |-> Good],
      [ADMIN_USERNAME |-> AdmiN, ADMIN_PASSWORD |-> Bad],
      [ADMIN_USERNAME |-> Admin, ADMIN_PASSWORD |-> Short7] }

\* ---------------------------------------------------------------- variables

VARIABLES
    now,            \* Date.now()
    ticks,          \* number of clock advances so far (bounds the behaviour)
    env,            \* process.env
    loginAttempts,  \* Map<string, {count, resetTime}>
    reqs,           \* the loginRateLimit calls so far, each with its outcome
    sessions,       \* Map<string, Session>
    unswept,        \* the sessions Map of the same run with the setInterval sweep left out
    issued,         \* the records createSession has returned, by token
    destroyed,      \* the tokens passed to destroySession so far
    resp,           \* the last session operation or requireAuth call, and its outcome
    envChanges,     \* number of changes of process.env so far (bounds the behaviour)
    hashedPassword, \* let hashedPassword: string | null
    inits,          \* the initializeAuth calls so far, each with where it stands
    calls,          \* the verifyCredentials calls so far, each with where it stands
    san,            \* the last call of a function of the security module, and its outcome
    ui              \* the browser: the state of AuthProvider, its pending calls, the location

clockVars == <<now, ticks>>
envVars == <<env, envChanges>>
rateVars == <<loginAttempts, reqs>>
sessionVars == <<sessions, unswept, issued, destroyed, resp>>
credVars == <<hashedPassword, inits, calls>>
securityVars == <<san>>
frontendVars == <<ui>>

vars == <<now, ticks, env, loginAttempts, reqs, sessions, unswept, issued, destroyed,
          resp, envChanges, hashedPassword, inits, calls, san, ui>>

\* ------------------------------------------------------------------ helpers

\* Map.set(k, v)
MapSet(m, k, v) == [x \in DOMAIN m \cup {k} |-> IF x = k THEN v ELSE m[x]]

\* Map.delete(k)
MapDelete(m, k) == [x \in DOMAIN m \ {k} |-> m[x]]

\* null
Null == << >>

\* Math.ceil(a / b) for b > 0
CeilDiv(a, b) == 0 - ((0 - a) \div b)

\* ------------------------------------------------------------- rate limiter

\* req.ip || req.socket.remoteAddress || "unknown"
ClientKey(c) == IF c[1] # "" THEN c[1] ELSE IF c[2] # "" THEN c[2] ELSE "unknown"

\* mutant: the window is taken to be over at resetTime itself
WindowElapsedAtReset(t, attempts) == t >= attempts.resetTime

\* now > attempts.resetTime
WindowElapsed(t, attempts) == t > attempts.resetTime

\* attempts.count >= LOGIN_MAX_ATTEMPTS
LimitReached(attempts) == attempts.count >= LOGIN_MAX_ATTEMPTS

\* Math.ceil((attempts.resetTime - now) / 1000)
RetryAfter(t, attempts) == CeilDiv(attempts.resetTime - t, MS_PER_SECOND)

\* { count: 1, resetTime: now + LOGIN_RATE_LIMIT_WINDOW }
FreshAttempts(t) == [count |-> 1, resetTime |-> t + LOGIN_RATE_LIMIT_WINDOW]

\* the branch loginRateLimit takes for key ip at time t
RateBranch(table, ip, t) ==
    IF ip \in DOMAIN table
    THEN IF WindowElapsed(t, table[ip]) THEN "reset"
         ELSE IF LimitReached(table[ip]) THEN "reject"
         ELSE "increment"
    ELSE "create"

\* mutant: the increment is lost (the entry read is not the entry written)
RateTableLostUpdate(table, ip, t) ==
    CASE RateBranch(table, ip, t) \in { "reset", "create" } ->
             MapSet(table, ip, FreshAttempts(t))
      [] OTHER -> table

\* mutant: a rejected attempt is counted too
RateTableCountsRejected(table, ip, t) ==
    CASE RateBranch(table, ip, t) \in { "reset", "create" } ->
             MapSet(table, ip, FreshAttempts(t))
      [] OTHER -> [table EXCEPT ![ip].count = @ + 1]

\* the login-attempt table loginRateLimit leaves behind
RateTable(table, ip, t) ==
    CASE RateBranch(table, ip, t) = "reset"     -> MapSet(table, ip, FreshAttempts(t))
      [] RateBranch(table, ip, t) = "create"    -> MapSet(table, ip, FreshAttempts(t))
      [] RateBranch(table, ip, t) = "increment" ->
             [table EXCEPT ![ip].count = @ + 1]
      [] RateBranch(table, ip, t) = "reject"    -> table

\* what one call of loginRateLimit does to the table, and its outcome
RateLimited(c) ==
    LET ip == ClientKey(c)
        rejected == RateBranch(loginAttempts, ip, now) = "reject"
    IN /\ loginAttempts' = RateTable(loginAttempts, ip, now)
       /\ reqs' = Append(reqs,
              [ ip         |-> ip,
                t          |-> now,
                status     |-> IF rejected THEN 429 ELSE 200,
                retryAfter |-> IF rejected
                               THEN RetryAfter(now, loginAttempts[ip])
                               ELSE -1,
                next       |-> IF rejected THEN 0 ELSE 1,
                count      |-> loginAttempts'[ip].count,
                resetTime  |-> loginAttempts'[ip].resetTime ])

\* loginRateLimit(req, res, next): one synchronous call, no await inside
LoginRateLimit(c) ==
    /\ Len(reqs) < MaxReqs
    /\ RateLimited(c)
    /\ UNCHANGED <<frontendVars, securityVars, clockVars, envVars, sessionVars, credVars>>

\* the clock advances by d milliseconds between two calls
Tick(d) ==
    /\ ticks < MaxTicks
    /\ now' = now + d
    /\ ticks' = ticks + 1
    /\ UNCHANGED <<frontendVars, securityVars, envVars, rateVars, sessionVars, credVars>>

\* n: which call it was; t: Date.now() of the call; cookies: req.cookies;
\* token: the sessionId argument; found: what getSession / createSession
\* returned ({} is null); removed: the keys the call deleted from the table;
\* status: the HTTP status sent (0: none); cleared: the options of each
\* res.clearCookie; next: the calls of next(); attached: req.session
NoResponse ==
    [ n |-> 0, op |-> "none", t |-> 0, cookies |-> << >>, token |-> "",
      found |-> {}, removed |-> {}, status |-> 0, cleared |-> {}, next |-> 0,
      attached |-> {} ]

\* the module just loaded, under one of the environments envs
\* no function of the security module has been called yet
NoCall == [ fn |-> "none" ]

\* AuthProvider just mounted at the location "/": useState(false),
\* useState(true), and the effect has called verifyAuth, which waits for
\* checkAuth; no login or logout call yet
Mounted ==
    [ isAuthenticated |-> FALSE, isLoading |-> TRUE, verify |-> "awaiting",
      path |-> "/", logins |-> << >>, logouts |-> << >>, navs |-> 0 ]

Loaded(envs) ==
    /\ now = 0
    /\ ticks = 0
    /\ env \in envs
    /\ loginAttempts = << >>
    /\ reqs = << >>
    /\ sessions = << >>
    /\ unswept = << >>
    /\ issued = << >>
    /\ destroyed = {}
    /\ resp = NoResponse
    /\ envChanges = 0
    /\ hashedPassword = Null
    /\ inits = << >>
    /\ calls = << >>
    /\ san = NoCall
    /\ ui = Mounted

Init == Loaded(InitialEnvs)

\* the module loaded in the configured deployment
InitServing == Loaded({ Production })

NextRate ==
    \/ \E c \in Clients : LoginRateLimit(c)
    \/ \E d \in RateDeltas : Tick(d)

SpecRate == InitServing /\ [][NextRate]_vars

\* ------------------------------------------------- rate limiter: properties

\* the calls made from one address, in order
KeyLog(k) == SelectSeq(reqs, LAMBDA r : r.ip = k)

Keys == { ClientKey(c) : c \in Clients }

\* L: the calls of one address; i: the call looked at; start: the time of the
\* call that opened the current window; n: the calls made in that window so far
RECURSIVE WindowRule(_, _, _, _)
WindowRule(L, i, start, n) ==
    IF i > Len(L) THEN TRUE
    ELSE IF i = 1 \/ L[i].t > start + 15 * 60 * 1000
         THEN /\ L[i].status = 200
              /\ L[i].next = 1
              /\ L[i].count = 1
              /\ L[i].resetTime = L[i].t + 15 * 60 * 1000
              /\ WindowRule(L, i + 1, L[i].t, 1)
         ELSE /\ n + 1 <= 5 => L[i].status = 200 /\ L[i].next = 1
              /\ n + 1 > 5 => L[i].status = 429 /\ L[i].next = 0
              /\ WindowRule(L, i + 1, start, n + 1)

\* C1: for each address, the first 5 calls inside one 15-minute window (the
\* window runs from the call that opened it up to and including 15 minutes
\* later) are passed to next, the 6th and every later call inside it is
\* answered 429 without calling next, and the first call after the window has
\* elapsed is passed and leaves count = 1 and resetTime = now + 15 minutes.
C1_WindowOfFive == \A k \in Keys : WindowRule(KeyLog(k), 1, 0, 0)

\* C1 witness: one address made 5 passed calls, a 6th that was rejected, and
\* after the window elapsed a 7th that passed and reset the counter to 1.
C1_Witness ==
    \E k \in Keys :
        LET L == KeyLog(k)
        IN /\ Len(L) >= 7
           /\ \A i \in 1..5 : L[i].status = 200
           /\ L[6].status = 429
           /\ L[6].t <= L[1].t + LOGIN_RATE_LIMIT_WINDOW
           /\ L[7].t > L[1].t + LOGIN_RATE_LIMIT_WINDOW
           /\ L[7].status = 200
           /\ L[7].count = 1

\* C3: every rejection reports retryAfter = ceil((resetTime - now) / 1000)
\* seconds, and that value is positive.
C3_RetryAfterPositive ==
    \A i \in 1..Len(reqs) :
        reqs[i].status = 429 =>
            /\ reqs[i].retryAfter * 1000 >= reqs[i].resetTime - reqs[i].t
            /\ (reqs[i].retryAfter - 1) * 1000 < reqs[i].resetTime - reqs[i].t
            /\ reqs[i].retryAfter > 0

\* the step is a call of loginRateLimit that was rejected
RejectedStep ==
    /\ Len(reqs') = Len(reqs) + 1
    /\ reqs'[Len(reqs')].status = 429

\* C4: a rejected loginRateLimit call leaves the login-attempt table as it
\* was: the count and resetTime of every address, the rejected one included.
C4_RejectionChangesNothing ==
    [][RejectedStep => loginAttempts' = loginAttempts]_vars

\* C4 witness: an address was rejected twice in a row, at two different times,
\* and its counter still holds count = 5 and the resetTime of its 5th call.
C4_Witness ==
    \E k \in Keys :
        LET L == KeyLog(k)
        IN /\ Len(L) >= 7
           /\ L[5].status = 200
           /\ L[6].status = 429
           /\ L[7].status = 429
           /\ L[7].t > L[6].t
           /\ loginAttempts[k].count = LOGIN_MAX_ATTEMPTS
           /\ loginAttempts[k].resetTime = L[5].resetTime

\* ------------------------------------------------------------ session store

SESSION_COOKIE_NAME == "excalidash_session"

\* mutant: the session is taken to be over at expiresAt itself
ExpiredAtDeadline(t, session) == t >= session.expiresAt

\* Date.now() > session.expiresAt
Expired(t, session) == t > session.expiresAt

\* what getSession(sessionId) returns at time t: {} is null
GetSessionResult(table, sessionId, t) ==
    IF sessionId \notin DOMAIN table THEN {}
    ELSE IF Expired(t, table[sessionId]) THEN {}
    ELSE { table[sessionId] }

\* mutant: a session that is read lives for another 24 hours
GetSessionTableRenews(table, sessionId, t) ==
    IF sessionId \notin DOMAIN table THEN table
    ELSE IF Expired(t, table[sessionId]) THEN MapDelete(table, sessionId)
    ELSE [ table EXCEPT ![sessionId].expiresAt = t + SESSION_EXPIRY_MS ]

\* the session table getSession(sessionId) leaves behind
GetSessionTable(table, sessionId, t) ==
    IF sessionId \in DOMAIN table /\ Expired(t, table[sessionId])
    THEN MapDelete(table, sessionId)
    ELSE table

\* mutant: nothing is removed
DestroySessionKeeps(table, sessionId) == table

\* the session table destroySession(sessionId) leaves behind
DestroySessionTable(table, sessionId) == MapDelete(table, sessionId)

\* the record createSession builds: createdAt is read at t1, expiresAt at t2
NewSession(id, t1, t2) ==
    [ id |-> id, createdAt |-> t1, expiresAt |-> t2 + SESSION_EXPIRY_MS ]

\* mutant: maxAge || SESSION_EXPIRY_MS, so that 0 falls back to the default
GetCookieOptionsOr(maxAge) ==
    [ httpOnly |-> TRUE,
      secure   |-> "NODE_ENV" \in DOMAIN env /\ env["NODE_ENV"] = "production",
      sameSite |-> "strict",
      maxAge   |-> IF maxAge = {} \/ maxAge = {0} THEN SESSION_EXPIRY_MS
                   ELSE CHOOSE m \in maxAge : TRUE,
      path     |-> "/" ]

\* getCookieOptions(maxAge): maxAge is {} when the argument is omitted
GetCookieOptions(maxAge) ==
    [ httpOnly |-> TRUE,
      secure   |-> "NODE_ENV" \in DOMAIN env /\ env["NODE_ENV"] = "production",
      sameSite |-> "strict",
      maxAge   |-> IF maxAge = {} THEN SESSION_EXPIRY_MS
                   ELSE CHOOSE m \in maxAge : TRUE,
      path     |-> "/" ]

\* !sessionId for req.cookies?.[SESSION_COOKIE_NAME]: undefined or ""
NoSessionId(cookies) ==
    \/ SESSION_COOKIE_NAME \notin DOMAIN cookies
    \/ cookies[SESSION_COOKIE_NAME] = ""

\* the outcome record of the call of op that is being made
Called(op, token) ==
    [ NoResponse EXCEPT !.n = resp.n + 1, !.op = op, !.t = now, !.token = token ]

\* createSession(): the clock may move by skew between its two Date.now() reads
CreateSession(skew) ==
    /\ resp.n < MaxOps
    /\ Cardinality(DOMAIN issued) < MaxSessions
    /\ LET id == Token(Cardinality(DOMAIN issued) + 1)
           session == NewSession(id, now, now + skew)
       IN /\ sessions' = MapSet(sessions, id, session)
          /\ unswept' = MapSet(unswept, id, session)
          /\ issued' = MapSet(issued, id, session)
          /\ resp' = [ Called("createSession", id) EXCEPT !.found = { session } ]
    /\ now' = now + skew
    /\ UNCHANGED <<frontendVars, securityVars, ticks, envVars, rateVars, credVars, destroyed>>

\* getSession(sessionId)
GetSession(sessionId) ==
    /\ resp.n < MaxOps
    /\ sessions' = GetSessionTable(sessions, sessionId, now)
    /\ unswept' = GetSessionTable(unswept, sessionId, now)
    /\ resp' = [ Called("getSession", sessionId) EXCEPT
                    !.found = GetSessionResult(sessions, sessionId, now),
                    !.removed = DOMAIN sessions \ DOMAIN sessions' ]
    /\ UNCHANGED <<frontendVars, securityVars, clockVars, envVars, rateVars, credVars, issued,
                   destroyed>>

\* destroySession(sessionId)
DestroySession(sessionId) ==
    /\ resp.n < MaxOps
    /\ sessions' = DestroySessionTable(sessions, sessionId)
    /\ unswept' = DestroySessionTable(unswept, sessionId)
    /\ destroyed' = destroyed \cup { sessionId }
    /\ resp' = [ Called("destroySession", sessionId) EXCEPT
                    !.removed = DOMAIN sessions \ DOMAIN sessions' ]
    /\ UNCHANGED <<frontendVars, securityVars, clockVars, envVars, rateVars, credVars, issued>>

\* requireAuth(req, res, next) for a request carrying req.cookies = cookies
RequireAuth(cookies) ==
    /\ resp.n < MaxOps
    /\ IF NoSessionId(cookies)
       THEN /\ resp' = [ Called("requireAuth", "") EXCEPT
                            !.cookies = cookies, !.status = 401 ]
            /\ sessions' = sessions
            /\ unswept' = unswept
       ELSE LET sessionId == cookies[SESSION_COOKIE_NAME]
                session == GetSessionResult(sessions, sessionId, now)
            IN /\ sessions' = GetSessionTable(sessions, sessionId, now)
               /\ unswept' = GetSessionTable(unswept, sessionId, now)
               /\ resp' =
                    IF session = {}
                    THEN [ Called("requireAuth", sessionId) EXCEPT
                              !.cookies = cookies,
                              !.removed = DOMAIN sessions \ DOMAIN sessions',
                              !.status = 401,
                              !.cleared = { GetCookieOptions({0}) } ]
                    ELSE [ Called("requireAuth", sessionId) EXCEPT
                              !.cookies = cookies,
                              !.found = session,
                              !.attached = session,
                              !.next = 1 ]
    /\ UNCHANGED <<frontendVars, securityVars, clockVars, envVars, rateVars, credVars, issued,
                   destroyed>>

\* mutant: the sweep takes an entry to be expired at expiresAt itself
SweepExpiredAtDeadline(t, session) == t >= session.expiresAt

\* now > session.expiresAt, as the setInterval callback tests it
SweepExpired(t, session) == t > session.expiresAt

\* mutant: the sweep stops at the first expired entry it deletes
SweepTableStopsAtFirst(table, t) ==
    LET expired == { x \in DOMAIN table : SweepExpired(t, table[x]) }
    IN IF expired = {} THEN table
       ELSE MapDelete(table, CHOOSE x \in expired : TRUE)

\* the table one run of the setInterval callback leaves behind
SweepTable(table, t) ==
    [ id \in { x \in DOMAIN table : ~SweepExpired(t, table[x]) } |-> table[id] ]

\* one run of the setInterval callback
Sweep ==
    /\ sessions' = SweepTable(sessions, now)
    /\ UNCHANGED <<frontendVars, securityVars, clockVars, envVars, rateVars, credVars, unswept,
                   issued,
                   destroyed, resp>>

\* the tokens a caller can present: the ones createSession has handed out (a
\* 256-bit random token is not guessed before it exists) and a made-up one
SessionIds == DOMAIN issued \cup { ForgedToken }

\* req.cookies of the requests: no cookie, an empty cookie, a cookie with a token
CookieJars ==
    { << >>, [excalidash_session |-> ""] }
        \cup { [excalidash_session |-> id] : id \in SessionIds }

NextSession ==
    \/ \E skew \in ClockSkews : CreateSession(skew)
    \/ \E id \in SessionIds : GetSession(id)
    \/ \E id \in SessionIds : DestroySession(id)
    \/ \E cookies \in CookieJars : RequireAuth(cookies)
    \/ Sweep
    \/ \E d \in SessionDeltas : Tick(d)

SpecSession == InitServing /\ [][NextSession]_vars

\* ------------------------------------------------ session store: properties

\* the step is a call of op
StepOf(op) == resp'.n = resp.n + 1 /\ resp'.op = op

\* C5: getSession(token) returns null and changes nothing when the token is
\* not in the table; deletes the entry and returns null when it is there and
\* now > expiresAt; returns the stored record and changes nothing otherwise.
C5_GetSession ==
    [][ StepOf("getSession") =>
          LET id == resp'.token
          IN IF id \notin DOMAIN sessions
             THEN resp'.found = {} /\ sessions' = sessions
             ELSE IF now > sessions[id].expiresAt
             THEN /\ resp'.found = {}
                  /\ DOMAIN sessions' = DOMAIN sessions \ { id }
                  /\ \A x \in DOMAIN sessions' : sessions'[x] = sessions[x]
             ELSE resp'.found = { sessions[id] } /\ sessions' = sessions
      ]_vars

\* C5 witness: getSession was called on a stored session after its expiry,
\* answered null and removed the entry itself.
C5_Witness ==
    /\ resp.op = "getSession"
    /\ resp.token \in DOMAIN issued
    /\ resp.t > issued[resp.token].expiresAt
    /\ resp.found = {}
    /\ resp.removed = { resp.token }
    /\ resp.token \notin DOMAIN sessions

\* C6: every record createSession returns has expiresAt - createdAt equal to
\* 24 hours exactly, and getSession called right after returns that record.
C6_ExactLifetime ==
    /\ [](\A id \in DOMAIN issued :
            issued[id].expiresAt - issued[id].createdAt = 86400000)
    /\ [][ StepOf("getSession") /\ resp.op = "createSession"
             /\ resp'.token = resp.token /\ resp'.t <= resp.t + 1
           => resp'.found = resp.found ]_vars

\* a cookie that carries a token: present and not empty
HasToken(cookies) ==
    "excalidash_session" \in DOMAIN cookies /\ cookies["excalidash_session"] # ""

\* C7: requireAuth has three outcomes.  A request whose cookie carries no
\* token (no cookie, or an empty one) is answered 401, nothing is cleared and
\* next is not called.  A request whose token getSession resolves to null is
\* answered 401, the cookie is cleared with max-age 0, next is not called.
\* Otherwise the stored session is attached and next is called once.
C7_RequireAuth ==
    [][ StepOf("requireAuth") =>
          LET r == resp'
              id == r.cookies["excalidash_session"]
              valid == id \in DOMAIN sessions /\ now <= sessions[id].expiresAt
          IN IF ~HasToken(r.cookies)
             THEN /\ r.status = 401 /\ r.next = 0
                  /\ r.cleared = {} /\ r.attached = {}
             ELSE IF ~valid
             THEN /\ r.status = 401 /\ r.next = 0 /\ r.attached = {}
                  /\ Cardinality(r.cleared) = 1
                  /\ \A o \in r.cleared : o.maxAge = 0 /\ o.path = "/"
             ELSE /\ r.status = 0 /\ r.next = 1
                  /\ r.attached = { sessions[id] }
                  /\ r.cleared = {}
      ]_vars

\* C7 witness: a request with the token of an expired session was answered
\* 401 and told to clear its cookie.
C7_Witness ==
    /\ resp.op = "requireAuth"
    /\ resp.token \in DOMAIN issued
    /\ resp.t > issued[resp.token].expiresAt
    /\ resp.status = 401
    /\ resp.cleared # {}
    /\ resp.next = 0

\* C8: once destroySession(t) has been called, getSession(t) returns null and
\* requireAuth with t answers 401 without calling next, whatever else was
\* done in between; and requireAuth with a token that createSession returned
\* passes as long as the token was not destroyed and now <= its expiresAt.
C8_DestroyedStaysOut ==
    /\ resp.op \in { "getSession", "requireAuth" } /\ resp.token \in destroyed
          => /\ resp.found = {} /\ resp.attached = {} /\ resp.next = 0
             /\ resp.op = "requireAuth" => resp.status = 401
    /\ ( /\ resp.op = "requireAuth"
         /\ resp.token \in DOMAIN issued \ destroyed
         /\ resp.t <= issued[resp.token].expiresAt )
          => resp.next = 1 /\ resp.attached = { issued[resp.token] }
    /\ destroyed \cap DOMAIN sessions = {}

\* C8 witness: requireAuth was refused for a destroyed token whose lifetime
\* had not run out, while another session was still stored.
C8_Witness ==
    /\ resp.op = "requireAuth"
    /\ resp.token \in destroyed \cap DOMAIN issued
    /\ resp.t <= issued[resp.token].expiresAt
    /\ resp.status = 401
    /\ sessions # << >>

\* -------------------------------------------------------------- credentials

\* the UTF-8 bytes of one code unit (no surrogates among the inputs)
Utf8Char(c) ==
    IF c < 128 THEN << c >>
    ELSE IF c < 2048 THEN << 192 + (c \div 64), 128 + (c % 64) >>
    ELSE << 224 + (c \div 4096), 128 + ((c \div 64) % 64), 128 + (c % 64) >>

\* the UTF-8 bytes of the characters lo..hi of str
RECURSIVE Utf8(_, _, _)
Utf8(str, lo, hi) ==
    IF lo > hi THEN << >>
    ELSE IF lo = hi THEN Utf8Char(str[lo])
    ELSE Utf8(str, lo, (lo + hi) \div 2) \o Utf8(str, (lo + hi) \div 2 + 1, hi)

\* a byte that continues a character begun before it
Continuation(byte) == byte >= 128 /\ byte < 192

\* how many bytes Buffer.write puts into a buffer of `size` bytes: whole
\* characters only, until one does not fit
Written(bytes, size) ==
    IF Len(bytes) <= size THEN Len(bytes)
    ELSE IF ~Continuation(bytes[size + 1]) THEN size
    ELSE IF ~Continuation(bytes[size]) THEN size - 1
    ELSE size - 2

\* const b = Buffer.alloc(size); b.write(str): zero-filled, then the bytes
PaddedBuffer(str, size) ==
    LET bytes == Utf8(str, 1, Len(str))
        n == Written(bytes, size)
    IN [ i \in 1..size |-> IF i <= n THEN bytes[i] ELSE 0 ]

\* Math.max(a, b, c)
Max3(a, b, c) ==
    IF a >= b /\ a >= c THEN a ELSE IF b >= c THEN b ELSE c

\* crypto.timingSafeEqual(a, b), for buffers of one length
TimingSafeEqual(a, b) == a = b

\* usernameValid of verifyCredentials
UsernameValid(username, adminUsername) ==
    LET maxLength == Max3(Len(username), Len(adminUsername), MIN_BUFFER_LENGTH)
    IN /\ TimingSafeEqual(PaddedBuffer(username, maxLength),
                          PaddedBuffer(adminUsername, maxLength))
       /\ Len(username) = Len(adminUsername)

\* bcrypt.hash(password, rounds): the salt plays no part in what follows
BcryptHash(password, rounds) == << "$2b$", rounds, password >>

\* bcrypt.compare(password, hash)
BcryptCompare(password, hash) == hash # Null /\ hash[3] = password

\* mutant: the guard is gone
UninitializedNever(hash) == FALSE

\* !hashedPassword
Uninitialized(hash) == hash = Null

\* !adminUsername || adminUsername.trim().length === 0
UsernameMissing(e) ==
    \/ "ADMIN_USERNAME" \notin DOMAIN e
    \/ \A i \in 1..Len(e["ADMIN_USERNAME"]) :
          e["ADMIN_USERNAME"][i] \in { 9, 10, 11, 12, 13, 32 }

\* mutant: a password of 7 characters is let through
PasswordMissingUnder7(e) ==
    \/ "ADMIN_PASSWORD" \notin DOMAIN e
    \/ Len(e["ADMIN_PASSWORD"]) < 7

\* !adminPassword || adminPassword.length < 8
PasswordMissing(e) ==
    \/ "ADMIN_PASSWORD" \notin DOMAIN e
    \/ Len(e["ADMIN_PASSWORD"]) < 8

\* the initializeAuth calls that have stored a hash
Completed == { i \in DOMAIN inits : inits[i].pc = "done" }

\* initializeAuth(), up to its await: it throws, or waits for bcrypt.hash
InitializeAuth ==
    /\ Len(inits) < MaxInits
    /\ inits' = Append(inits,
          IF UsernameMissing(env)
          THEN [ pc |-> "threw", error |-> "ADMIN_USERNAME", password |-> << >> ]
          ELSE IF PasswordMissing(env)
          THEN [ pc |-> "threw", error |-> "ADMIN_PASSWORD", password |-> << >> ]
          ELSE [ pc |-> "awaiting", error |-> "",
                 password |-> env["ADMIN_PASSWORD"] ])
    /\ UNCHANGED <<frontendVars, securityVars, clockVars, envVars, rateVars, sessionVars,
                   hashedPassword, calls>>

\* initializeAuth(), from the await on: the hash is stored
InitializeAuthResume(i) ==
    /\ inits[i].pc = "awaiting"
    /\ hashedPassword' = BcryptHash(inits[i].password, BCRYPT_ROUNDS)
    /\ inits' = [ inits EXCEPT ![i].pc = "done" ]
    /\ UNCHANGED <<frontendVars, securityVars, clockVars, envVars, rateVars, sessionVars, calls>>

\* the record of a verifyCredentials(username, password) call made now, up to
\* its await; req is the login request it serves (0: none)
VerifyCall(username, password, req) ==
    LET base == [ username |-> username, password |-> password, req |-> req,
                  completed |-> Cardinality(Completed),
                  pending |-> { inits[i].pc : i \in DOMAIN inits },
                  adminUsername |-> << >>, usernameValid |-> FALSE,
                  hash |-> Null, compared |-> FALSE, result |-> FALSE,
                  pc |-> "threw", error |-> "" ]
    IN IF Uninitialized(hashedPassword)
       THEN [ base EXCEPT !.error = "Auth not initialized" ]
       ELSE IF "ADMIN_USERNAME" \notin DOMAIN env
       THEN [ base EXCEPT !.error = "TypeError" ]
       ELSE [ base EXCEPT
                !.adminUsername = env["ADMIN_USERNAME"],
                !.usernameValid = UsernameValid(username, env["ADMIN_USERNAME"]),
                !.hash = hashedPassword,
                !.pc = "awaiting" ]

\* verifyCredentials(username, password), up to its await
VerifyCredentials(username, password) ==
    /\ Len(calls) < MaxCalls
    /\ calls' = Append(calls, VerifyCall(username, password, 0))
    /\ UNCHANGED <<frontendVars, securityVars, clockVars, envVars, rateVars, sessionVars,
                   hashedPassword, inits>>

\* mutant: verifyCredentials answering true clears the login-attempt table
VerifyCredentialsResumeResets(i) ==
    /\ calls[i].pc = "awaiting"
    /\ calls' = [ calls EXCEPT
          ![i].compared = TRUE,
          ![i].result = calls[i].usernameValid
                          /\ BcryptCompare(calls[i].password, calls[i].hash),
          ![i].pc = "returned" ]
    /\ loginAttempts' = IF calls'[i].result THEN << >> ELSE loginAttempts
    /\ UNCHANGED <<frontendVars, securityVars, clockVars, envVars, reqs, sessionVars,
                   hashedPassword, inits>>

\* verifyCredentials, from the await on: bcrypt.compare has answered
VerifyCredentialsResume(i) ==
    /\ calls[i].pc = "awaiting"
    /\ calls' = [ calls EXCEPT
          ![i].compared = TRUE,
          ![i].result = calls[i].usernameValid
                          /\ BcryptCompare(calls[i].password, calls[i].hash),
          ![i].pc = "returned" ]
    /\ UNCHANGED <<frontendVars, securityVars, clockVars, envVars, rateVars, sessionVars,
                   hashedPassword, inits>>

\* the operator changes ADMIN_USERNAME / ADMIN_PASSWORD of the running process
SetEnv(config) ==
    /\ envChanges < MaxEnvChanges
    /\ envChanges' = envChanges + 1
    /\ env' = [ k \in DOMAIN config \cup (DOMAIN env \cap { "NODE_ENV" }) |->
                  IF k \in DOMAIN config THEN config[k] ELSE env[k] ]
    /\ env' # env
    /\ UNCHANGED <<frontendVars, securityVars, clockVars, rateVars, sessionVars, credVars>>

NextCred ==
    \/ InitializeAuth
    \/ \E i \in DOMAIN inits : InitializeAuthResume(i)
    \/ \E u \in ShortUsernames : VerifyCredentials(u, Good)
    \/ \E i \in DOMAIN calls : VerifyCredentialsResume(i)
    \/ \E config \in CredConfigs : SetEnv(config)

SpecCred == Init /\ [][NextCred]_vars

InitVerify == Loaded(VerifyEnvs)

NextVerify ==
    \/ InitializeAuth
    \/ \E i \in DOMAIN inits : InitializeAuthResume(i)
    \/ \E u \in Usernames, p \in Passwords : VerifyCredentials(u, p)
    \/ \E i \in DOMAIN calls : VerifyCredentialsResume(i)

SpecVerify == InitVerify /\ [][NextVerify]_vars

\* ------------------------------------------------------------- login route

\* the one address the concurrent logins come from
LoginClients == { <<"10.0.0.1", "10.0.0.9">> }

\* the clock advance tried between logins: one window and a millisecond
LoginDeltas == { LOGIN_RATE_LIMIT_WINDOW + 1 }

\* the password the concurrent logins try: a wrong one
LoginPasswords == { Bad }

\* POST login: loginRateLimit runs, and when it calls next the route calls
\* verifyCredentials, which runs up to its await and suspends there
Login(c, username, password) ==
    /\ Len(reqs) < MaxReqs
    /\ RateLimited(c)
    /\ calls' = IF reqs'[Len(reqs')].next = 1
                THEN Append(calls, VerifyCall(username, password, Len(reqs')))
                ELSE calls
    /\ UNCHANGED <<frontendVars, securityVars, clockVars, envVars, sessionVars, hashedPassword,
                   inits>>

\* the server once start-up is over: initializeAuth has run to its end under
\* the configured environment, and no request has come in yet
InitLogin ==
    /\ now = 0
    /\ ticks = 0
    /\ env = [NODE_ENV |-> "production", ADMIN_USERNAME |-> Admin,
              ADMIN_PASSWORD |-> Good]
    /\ loginAttempts = << >>
    /\ reqs = << >>
    /\ sessions = << >>
    /\ unswept = << >>
    /\ issued = << >>
    /\ destroyed = {}
    /\ resp = NoResponse
    /\ envChanges = 0
    /\ hashedPassword = BcryptHash(Good, BCRYPT_ROUNDS)
    /\ inits = << [ pc |-> "done", error |-> "", password |-> Good ] >>
    /\ calls = << >>
    /\ san = NoCall
    /\ ui = Mounted

NextLogin ==
    \/ \E c \in LoginClients, p \in LoginPasswords : Login(c, Admin, p)
    \/ \E i \in DOMAIN calls : VerifyCredentialsResume(i)
    \/ \E d \in LoginDeltas : Tick(d)

SpecLogin == InitLogin /\ [][NextLogin]_vars

\* ---------------------------------------- credentials and login: properties

\* C2: whatever the interleaving of concurrent logins from one address, at
\* most 5 of them pass the limiter in one window (the requests counted
\* against one resetTime).
C2_NoSixthThrough ==
    \A k \in Keys :
        \A i \in DOMAIN reqs :
            Cardinality({ j \in DOMAIN reqs :
                            /\ reqs[j].ip = k
                            /\ reqs[j].status = 200
                            /\ reqs[j].resetTime = reqs[i].resetTime }) <= 5

\* C2 witness: a 6th login was rejected while the 5 logins that had passed in
\* its window were all still suspended in the password-hash comparison.
C2_Witness ==
    \E i \in DOMAIN reqs :
        /\ reqs[i].status = 429
        /\ Cardinality({ j \in DOMAIN calls :
                           /\ calls[j].pc = "awaiting"
                           /\ calls[j].req < i
                           /\ reqs[calls[j].req].ip = reqs[i].ip
                           /\ reqs[calls[j].req].resetTime = reqs[i].resetTime }) = 5

\* C9: every verifyCredentials call that returns has run the password-hash
\* comparison, and returns true exactly when the supplied username is the
\* configured username and the supplied password matches the stored hash.
C9_ExactCredentials ==
    \A i \in DOMAIN calls :
        calls[i].pc = "returned" =>
            /\ calls[i].compared
            /\ calls[i].result =
                 ( /\ calls[i].username = calls[i].adminUsername
                   /\ BcryptCompare(calls[i].password, calls[i].hash) )

\* C10: a verifyCredentials call made before any initializeAuth call has
\* stored the hash throws "Auth not initialized"; no call gets as far as the
\* hash comparison, or returns, unless it was made after one had.
C10_UninitializedThrows ==
    \A i \in DOMAIN calls :
        /\ calls[i].completed = 0 =>
              calls[i].pc = "threw" /\ calls[i].error = "Auth not initialized"
        /\ calls[i].pc \in { "awaiting", "returned" } => calls[i].completed >= 1

\* C10 witness: one call threw after an initializeAuth call had failed, and
\* one threw while an initializeAuth call was awaiting the hash.
C10_Witness ==
    \E i, j \in DOMAIN calls :
        /\ calls[i].pending = { "threw" }
        /\ calls[i].pc = "threw"
        /\ "awaiting" \in calls[j].pending
        /\ calls[j].completed = 0
        /\ calls[j].pc = "threw"
        /\ calls[j].error = "Auth not initialized"

\* ------------------------------------------------- start-up: specification

\* process.env at start-up of the deployments whose start-up is examined:
\* every configuration, and a process started with nothing set
StartupEnvs == Configs \cup { << >> }

InitStartup == Loaded(StartupEnvs)

NextStartup ==
    \/ InitializeAuth
    \/ \E i \in DOMAIN inits : InitializeAuthResume(i)
    \/ \E config \in Configs : SetEnv(config)

SpecStartup == InitStartup /\ [][NextStartup]_vars

\* --------------------------------------------------- start-up: properties

\* the value is absent, or holds nothing but white space
MissingOrBlank(e, k) ==
    k \in DOMAIN e => \A i \in 1..Len(e[k]) : e[k][i] \in { 9, 10, 11, 12, 13, 32 }

\* the value is absent, or has fewer than n characters
MissingOrShorter(e, k, n) == k \in DOMAIN e => Len(e[k]) < n

\* the initializeAuth call that this step starts, if it starts one
Started == IF Len(inits') = Len(inits) + 1 THEN { inits'[Len(inits')] } ELSE {}

\* C11: an initializeAuth call throws exactly when the configured username is
\* missing or blank or the configured password is missing or shorter than 8
\* characters; a call that throws never assigns the stored hash, which is
\* unset as long as no call has got past both checks; the hash is stored only
\* by a call that passed both checks, from a password of 8 characters or more.
C11_InitializeAuthChecks ==
    /\ [][\A r \in Started :
            /\ r.pc = "threw" <=>
                  \/ MissingOrBlank(env, "ADMIN_USERNAME")
                  \/ MissingOrShorter(env, "ADMIN_PASSWORD", 8)
            /\ hashedPassword' = hashedPassword]_vars
    /\ [][\A i \in DOMAIN inits :
            inits[i].pc = "threw" => inits'[i] = inits[i]]_vars
    /\ [][hashedPassword' # hashedPassword =>
            \E i \in DOMAIN inits :
                /\ inits[i].pc = "awaiting"
                /\ inits'[i].pc = "done"
                /\ Len(inits[i].password) >= 8
                /\ hashedPassword' = BcryptHash(inits[i].password, BCRYPT_ROUNDS)]_vars
    /\ [](Completed = {} => hashedPassword = Null)

\* C11 witness: one call threw on a blank username and one on a password of 7
\* characters, and the stored hash is unset.
C11_Witness ==
    /\ hashedPassword = Null
    /\ \E i, j \in DOMAIN inits :
          /\ inits[i].pc = "threw"
          /\ inits[i].error = "ADMIN_USERNAME"
          /\ inits[j].pc = "threw"
          /\ inits[j].error = "ADMIN_PASSWORD"
    /\ "ADMIN_PASSWORD" \in DOMAIN env
    /\ env["ADMIN_PASSWORD"] = Short7

\* C12: all verifyCredentials calls that get as far as the comparison check
\* against one and the same credential: the same administrator username and
\* the same password hash, whatever happened between them (changes of
\* ADMIN_USERNAME / ADMIN_PASSWORD, further initializeAuth calls).
C12_CredentialNeverChanges ==
    \A i, j \in DOMAIN calls :
        ( calls[i].pc # "threw" /\ calls[j].pc # "threw" ) =>
            /\ calls[i].adminUsername = calls[j].adminUsername
            /\ calls[i].hash = calls[j].hash

\* ------------------------------------------------------ sweep: properties

\* C13: every getSession and requireAuth call gets the result it gets in the
\* run of the same operations and clock advances without the sweep, wherever
\* the sweep ran in between; the two tables differ only in entries that are
\* expired, which no later call can be answered from.
C13_SweepUnobservable ==
    /\ [][ StepOf("getSession") =>
             resp'.found = GetSessionResult(unswept, resp'.token, now) ]_vars
    /\ [][ StepOf("requireAuth") /\ HasToken(resp'.cookies) =>
             LET session == GetSessionResult(unswept, resp'.token, now)
             IN /\ resp'.attached = session
                /\ resp'.found = session
                /\ resp'.next = IF session = {} THEN 0 ELSE 1
                /\ resp'.status = IF session = {} THEN 401 ELSE 0
                /\ (resp'.cleared = {}) = (session # {}) ]_vars
    /\ [](\A id \in DOMAIN sessions :
             id \in DOMAIN unswept /\ unswept[id] = sessions[id])
    /\ [](\A id \in DOMAIN unswept \ DOMAIN sessions : now > unswept[id].expiresAt)

\* C13 witness: requireAuth was refused for the token of an expired session
\* that the sweep had already deleted, while the run without the sweep still
\* holds an entry the sweep has deleted.
C13_Witness ==
    /\ resp.op = "requireAuth"
    /\ resp.token \in DOMAIN issued \ destroyed
    /\ resp.t > issued[resp.token].expiresAt
    /\ resp.status = 401
    /\ resp.removed = {}
    /\ DOMAIN sessions # DOMAIN unswept

\* C14: a run of the sweep (the only step that is neither a call nor a clock
\* advance) leaves exactly the entries with now <= expiresAt, each as it was,
\* and touches nothing else.
C14_SweepDeletesExpired ==
    [][ ( resp' = resp /\ now' = now ) =>
          /\ DOMAIN sessions' =
                { id \in DOMAIN sessions : now <= sessions[id].expiresAt }
          /\ \A id \in DOMAIN sessions' : sessions'[id] = sessions[id]
          /\ issued' = issued /\ destroyed' = destroyed
      ]_vars

\* C14 witness: a sweep has deleted an expired entry and kept an unexpired
\* one (the deleted entry is still in the table of the run without the sweep,
\* so no call removed it).
C14_Witness ==
    /\ \E id \in DOMAIN unswept \ DOMAIN sessions : now > unswept[id].expiresAt
    /\ \E id \in DOMAIN sessions : now <= sessions[id].expiresAt

\* ---------------------------------------------------------- security module

(***************************************************************************)
(* Sanitizers and validators of ExcaliDash (backend security module).      *)
(*                                                                         *)
(* A JavaScript value is a pair of its kind and its payload: a string is a *)
(* sequence of UTF-16 code units, an array a sequence of values, an object *)
(* a function from its own keys to values, a number an integer.  The       *)
(* sanitizers return strings, as bare sequences of code units.             *)
(***************************************************************************)

\* ------------------------------------------------------- JavaScript values

Undefined == <<"undefined", 0>>
JsNull == <<"null", 0>>
Num(n) == <<"number", n>>
Bool(b) == <<"boolean", b>>
Str(s) == <<"string", s>>
Arr(a) == <<"array", a>>
Obj(o) == <<"object", o>>

\* the kind of x, and its payload
Kind(x) == x[1]
Val(x) == x[2]

\* typeof x
TypeOf(x) ==
    CASE Kind(x) \in { "null", "array", "object" } -> "object"
      [] OTHER -> Kind(x)

\* x[k] for a property name k: undefined when x has no such property
Get(x, k) ==
    IF Kind(x) = "object" /\ k \in DOMAIN Val(x) THEN Val(x)[k] ELSE Undefined

\* ------------------------------------------------------ regular expressions

\* \w
WordChars == (48..57) \cup (65..90) \cup { 95 } \cup (97..122)

\* \s, and the characters String.prototype.trim removes
WhiteSpace ==
    { 9, 10, 11, 12, 13, 32, 160, 5760, 8232, 8233, 8239, 8287, 12288, 65279 }
        \cup (8192..8202)

\* ["']
Quotes == { 34, 39 }

\* mutant: tab, newline and carriage return are stripped as well
ControlCharsAll == (0..31) \cup { 127 }

\* [\x00-\x08\x0B\x0C\x0E-\x1F\x7F]
ControlChars == (0..8) \cup { 11, 12 } \cup (14..31) \cup { 127 }

\* flag i: the letters A-Z match as a-z (no other character folds to ASCII)
ToLower(c) == IF c \in 65..90 THEN c + 32 ELSE c

\* the literal lit, written in lower case, stands at position i of s
At(s, i, lit) ==
    /\ i >= 1
    /\ i + Len(lit) - 1 <= Len(s)
    /\ \A k \in 1..Len(lit) : ToLower(s[i + k - 1]) = lit[k]

\* the least member of a non-empty set of positions
Least(ps) == CHOOSE p \in ps : \A q \in ps : p <= q

\* the first position from i on where lit stands, 0 when there is none
First(s, i, lit) ==
    LET ps == { p \in i..Len(s) : At(s, p, lit) }
    IN IF ps = {} THEN 0 ELSE Least(ps)

\* the position after the longest run of characters of set that starts at i
Skip(s, i, set) ==
    LET ps == { p \in i..Len(s) : s[p] \notin set }
    IN IF ps = {} THEN (IF i > Len(s) THEN i ELSE Len(s) + 1) ELSE Least(ps)

\* the first position from i on that holds a character of set, past the end
\* of s when there is none
SkipTo(s, i, set) ==
    LET ps == { p \in i..Len(s) : s[p] \in set }
    IN IF ps = {} THEN (IF i > Len(s) THEN i ELSE Len(s) + 1) ELSE Least(ps)

\* <script
LtScript ==
    <<60, 115, 99, 114, 105, 112, 116>>
\* </script>
LtScriptEnd ==
    <<60, 47, 115, 99, 114, 105, 112, 116, 62>>
\* <iframe
LtIframe ==
    <<60, 105, 102, 114, 97, 109, 101>>
\* </iframe>
LtIframeEnd ==
    <<60, 47, 105, 102, 114, 97, 109, 101, 62>>
\* <object
LtObject ==
    <<60, 111, 98, 106, 101, 99, 116>>
\* </object>
LtObjectEnd ==
    <<60, 47, 111, 98, 106, 101, 99, 116, 62>>
\* <embed
LtEmbed ==
    <<60, 101, 109, 98, 101, 100>>
\* </embed>
LtEmbedEnd ==
    <<60, 47, 101, 109, 98, 101, 100, 62>>
\* <style
LtStyle ==
    <<60, 115, 116, 121, 108, 101>>
\* </style>
LtStyleEnd ==
    <<60, 47, 115, 116, 121, 108, 101, 62>>
\* <foreignObject
LtForeignObject ==
    <<60, 102, 111, 114, 101, 105, 103, 110, 111, 98, 106, 101, 99, 116>>
\* </foreignObject>
LtForeignObjectEnd ==
    <<60, 47, 102, 111, 114, 101, 105, 103, 110, 111, 98, 106, 101, 99, 116,
      62>>
\* <link
LtLink ==
    <<60, 108, 105, 110, 107>>
\* javascript:
JavascriptColon ==
    <<106, 97, 118, 97, 115, 99, 114, 105, 112, 116, 58>>
\* on
OnPrefix ==
    <<111, 110>>
\* href
HrefAttr ==
    <<104, 114, 101, 102>>
\* xlink:href
XlinkHrefAttr ==
    <<120, 108, 105, 110, 107, 58, 104, 114, 101, 102>>
\*  href="#"
HrefHash ==
    <<32, 104, 114, 101, 102, 61, 34, 35, 34>>
\*  xlink:href="#"
XlinkHrefHash ==
    <<32, 120, 108, 105, 110, 107, 58, 104, 114, 101, 102, 61, 34, 35, 34>>

\* /<tag\b[^<]*(?:(?!<\/tag>)<[^<]*)*<\/tag>/ at position i: the position
\* after the match, 0 when there is none.  The match runs from <tag, followed
\* by a character that is not a word character, to the first </tag> after it.
TagBlock(s, i, open, close) ==
    LET p == i + Len(open)
        j == First(s, p, close)
    IN IF At(s, i, open) /\ p <= Len(s) /\ s[p] \notin WordChars /\ j > 0
       THEN j + Len(close)
       ELSE 0

\* /javascript:/ at position i
JavascriptUri(s, i) == IF At(s, i, JavascriptColon) THEN i + Len(JavascriptColon) ELSE 0

\* /on\w+\s*=\s*["'][^"']*["']/ at position i
EventHandler(s, i) ==
    LET w == Skip(s, i + 2, WordChars)
        e == Skip(s, w, WhiteSpace)
        q == Skip(s, e + 1, WhiteSpace)
        r == SkipTo(s, q + 1, Quotes)
    IN IF /\ At(s, i, OnPrefix)
          /\ w > i + 2
          /\ e <= Len(s) /\ s[e] = 61
          /\ q <= Len(s) /\ s[q] \in Quotes
          /\ r <= Len(s)
       THEN r + 1
       ELSE 0

\* /<link\b[^>]*>/ at position i
LinkTag(s, i) ==
    LET p == i + Len(LtLink)
        g == SkipTo(s, p, { 62 })
    IN IF At(s, i, LtLink) /\ p <= Len(s) /\ s[p] \notin WordChars /\ g <= Len(s)
       THEN g + 1
       ELSE 0

\* /\sattr\s*=\s*["'][^"']*(?:javascript:)[^"']*["']/ at position i
JavascriptAttr(s, i, attr) ==
    LET e == Skip(s, i + 1 + Len(attr), WhiteSpace)
        q == Skip(s, e + 1, WhiteSpace)
        r == SkipTo(s, q + 1, Quotes)
    IN IF /\ i <= Len(s) /\ s[i] \in WhiteSpace
          /\ At(s, i + 1, attr)
          /\ e <= Len(s) /\ s[e] = 61
          /\ q <= Len(s) /\ s[q] \in Quotes
          /\ r <= Len(s)
          /\ \E j \in (q + 1)..(r - Len(JavascriptColon)) : At(s, j, JavascriptColon)
       THEN r + 1
       ELSE 0

\* the position after the match of pattern at position i of s, 0 when the
\* pattern does not match there
MatchEnd(pattern, s, i) ==
    CASE pattern = "script" -> TagBlock(s, i, LtScript, LtScriptEnd)
      [] pattern = "javascript:" -> JavascriptUri(s, i)
      [] pattern = "on" -> EventHandler(s, i)
      [] pattern = "iframe" -> TagBlock(s, i, LtIframe, LtIframeEnd)
      [] pattern = "object" -> TagBlock(s, i, LtObject, LtObjectEnd)
      [] pattern = "embed" -> TagBlock(s, i, LtEmbed, LtEmbedEnd)
      [] pattern = "link" -> LinkTag(s, i)
      [] pattern = "style" -> TagBlock(s, i, LtStyle, LtStyleEnd)
      [] pattern = "foreignObject" ->
             TagBlock(s, i, LtForeignObject, LtForeignObjectEnd)
      [] pattern = "href" -> JavascriptAttr(s, i, HrefAttr)
      [] pattern = "xlink:href" -> JavascriptAttr(s, i, XlinkHrefAttr)

\* what replace puts in the place of a match of pattern
Replacement(pattern) ==
    CASE pattern = "href" -> HrefHash
      [] pattern = "xlink:href" -> XlinkHrefHash
      [] OTHER -> << >>

RECURSIVE ReplaceFrom(_, _, _)
\* s.replace(/pattern/gi, replacement) from position i on: one pass from left
\* to right, each match looked for after the end of the one before
ReplaceFrom(pattern, s, i) ==
    LET ms == { p \in i..Len(s) : MatchEnd(pattern, s, p) > 0 }
    IN IF ms = {}
       THEN SubSeq(s, i, Len(s))
       ELSE SubSeq(s, i, Least(ms) - 1) \o Replacement(pattern)
                \o ReplaceFrom(pattern, s, MatchEnd(pattern, s, Least(ms)))

\* s.replace(/pattern/gi, replacement)
Replace(s, pattern) == ReplaceFrom(pattern, s, 1)

\* s.trim()
Trim(s) ==
    LET ps == { p \in 1..Len(s) : s[p] \notin WhiteSpace }
    IN IF ps = {} THEN << >>
       ELSE SubSeq(s, Least(ps), CHOOSE p \in ps : \A q \in ps : q <= p)

\* s.slice(0, n) for n >= 0
Slice(s, n) == SubSeq(s, 1, IF n < Len(s) THEN n ELSE Len(s))

\* sanitizeHtml(input)
SanitizeHtml(input) ==
    IF Kind(input) # "string" THEN << >>
    ELSE Trim(Replace(Replace(Replace(Replace(Replace(Replace(Replace(Replace(
            Val(input), "script"), "javascript:"), "on"), "iframe"), "object"),
            "embed"), "link"), "style"))

\* sanitizeSvg(svgContent)
SanitizeSvg(svgContent) ==
    IF Kind(svgContent) # "string" THEN << >>
    ELSE Trim(Replace(Replace(Replace(Replace(Replace(Replace(
            Val(svgContent), "script"), "javascript:"), "on"), "foreignObject"),
            "href"), "xlink:href"))

\* sanitizeText(input, maxLength)
SanitizeText(input, maxLength) ==
    IF Kind(input) # "string" THEN << >>
    ELSE LET cleaned == SelectSeq(Val(input), LAMBDA c : c \notin ControlChars)
             truncated == Slice(cleaned, maxLength)
         IN SanitizeHtml(Str(truncated))

\* javascript:
UrlJavascript ==
    <<106, 97, 118, 97, 115, 99, 114, 105, 112, 116, 58>>
\* data:
UrlData ==
    <<100, 97, 116, 97, 58>>
\* vbscript:
UrlVbscript ==
    <<118, 98, 115, 99, 114, 105, 112, 116, 58>>
\* http://
UrlHttp ==
    <<104, 116, 116, 112, 58, 47, 47>>
\* https://
UrlHttps ==
    <<104, 116, 116, 112, 115, 58, 47, 47>>
\* mailto:
UrlMailto ==
    <<109, 97, 105, 108, 116, 111, 58>>
\* /
UrlRoot ==
    <<47>>
\* ./
UrlHere ==
    <<46, 47>>
\* ../
UrlParent ==
    <<46, 46, 47>>

\* mutant: a deny-list, every URL without a blocked scheme is returned
SanitizeUrlDenyList(url) ==
    IF Kind(url) # "string" THEN << >>
    ELSE IF \E scheme \in { UrlJavascript, UrlData, UrlVbscript } :
              At(Trim(Val(url)), 1, scheme)
    THEN << >>
    ELSE Trim(Val(url))

\* sanitizeUrl(url)
SanitizeUrl(url) ==
    IF Kind(url) # "string" THEN << >>
    ELSE LET trimmed == Trim(Val(url))
         IN IF \E scheme \in { UrlJavascript, UrlData, UrlVbscript } :
                  At(trimmed, 1, scheme)
            THEN << >>
            ELSE IF \E prefix \in { UrlHttp, UrlHttps, UrlMailto, UrlRoot,
                                    UrlHere, UrlParent } : At(trimmed, 1, prefix)
            THEN trimmed
            ELSE << >>

\* sanitizeText's default maxLength
DEFAULT_MAX_LENGTH == 1000

\* ------------------------------------------------- sanitizers: the calls

\* pieces the strings passed to the sanitizers are put together from
\* <scr
ChunkScr ==
    <<60, 115, 99, 114>>
\* ipt>alert(1)</script>
ChunkIpt ==
    <<105, 112, 116, 62, 97, 108, 101, 114, 116, 40, 49, 41, 60, 47, 115, 99,
      114, 105, 112, 116, 62>>
\* java
ChunkJava ==
    <<106, 97, 118, 97>>
\* script:
ChunkScriptColon ==
    <<115, 99, 114, 105, 112, 116, 58>>
\* JavaScript:
ChunkJavaScript ==
    <<74, 97, 118, 97, 83, 99, 114, 105, 112, 116, 58>>
\* on
ChunkOn ==
    <<111, 110>>
\* load='x'
ChunkLoad ==
    <<108, 111, 97, 100, 61, 39, 120, 39>>
\* <link>
ChunkLink ==
    <<60, 108, 105, 110, 107, 62>>

Chunks ==
    { ChunkScr, ChunkIpt, ChunkJava, ChunkScriptColon, ChunkJavaScript, ChunkOn,
      ChunkLoad, ChunkLink }

RECURSIVE Flatten(_)
\* the pieces of w, one after the other
Flatten(w) == IF w = << >> THEN << >> ELSE Head(w) \o Flatten(Tail(w))

\* the strings of at most MaxChunks pieces
Strings == { Flatten(w) : w \in UNION { [1..n -> Chunks] : n \in 0..MaxChunks } }

\* the values passed to the sanitizers: the strings, and values that are not
\* strings
SanitizerInputs == { Str(s) : s \in Strings } \cup { Undefined, JsNull, Num(7) }

\* the maxLength values sanitizeText is called with
TextLimits == { 8, DEFAULT_MAX_LENGTH }

\* The functions of the security module are pure: nothing is carried from one
\* call to the next, and a behaviour holds one call.

\* the record of a call of fn with arguments args that returned output
Returned(fn, args, output) ==
    [ fn |-> fn, args |-> args, threw |-> FALSE, output |-> output ]

\* the record of a call of fn with arguments args that threw error
Threw(fn, args, error) ==
    [ fn |-> fn, args |-> args, threw |-> TRUE, output |-> Str(error) ]

\* a call of sanitizeHtml(input)
CallSanitizeHtml(input) ==
    /\ san = NoCall
    /\ san' = Returned("sanitizeHtml", <<input>>, Str(SanitizeHtml(input)))
    /\ UNCHANGED <<frontendVars, clockVars, envVars, rateVars, sessionVars,
                 credVars>>

\* a call of sanitizeSvg(svgContent)
CallSanitizeSvg(svgContent) ==
    /\ san = NoCall
    /\ san' = Returned("sanitizeSvg", <<svgContent>>, Str(SanitizeSvg(svgContent)))
    /\ UNCHANGED <<frontendVars, clockVars, envVars, rateVars, sessionVars,
                 credVars>>

\* a call of sanitizeText(input, maxLength)
CallSanitizeText(input, maxLength) ==
    /\ san = NoCall
    /\ san' = Returned("sanitizeText", <<input, Num(maxLength)>>,
                       Str(SanitizeText(input, maxLength)))
    /\ UNCHANGED <<frontendVars, clockVars, envVars, rateVars, sessionVars,
                 credVars>>

\* a call of sanitizeUrl(url)
CallSanitizeUrl(url) ==
    /\ san = NoCall
    /\ san' = Returned("sanitizeUrl", <<url>>, Str(SanitizeUrl(url)))
    /\ UNCHANGED <<frontendVars, clockVars, envVars, rateVars, sessionVars,
                 credVars>>

NextSanitize ==
    \/ \E input \in SanitizerInputs : CallSanitizeHtml(input)
    \/ \E input \in SanitizerInputs : CallSanitizeSvg(input)
    \/ \E input \in SanitizerInputs, maxLength \in TextLimits :
          CallSanitizeText(input, maxLength)
    \/ \E input \in SanitizerInputs : CallSanitizeUrl(input)

SpecSanitize == InitServing /\ [][NextSanitize]_vars

\* -------------------------------------------------- sanitizers: properties

\* pattern occurs somewhere in s
Occurs(pattern, s) == \E i \in 1..Len(s) : MatchEnd(pattern, s, i) > 0

\* C20: for every input string, what sanitizeHtml and sanitizeSvg return holds
\* no script block, no inline event-handler attribute and no javascript: URI
\* prefix.
C20_OutputHoldsNoPattern ==
    ( san.fn \in { "sanitizeHtml", "sanitizeSvg" } /\ Kind(san.args[1]) = "string" ) =>
        /\ ~Occurs("script", Val(san.output))
        /\ ~Occurs("on", Val(san.output))
        /\ ~Occurs("javascript:", Val(san.output))

\* ----------------------------------------------------------------- schemas

\* z.string()
ZString(x) == Kind(x) = "string"

\* z.string().min(lo).max(hi)
ZStringLen(x, lo, hi) == Kind(x) = "string" /\ Len(Val(x)) >= lo /\ Len(Val(x)) <= hi

\* z.number().finite(), over the integers
ZFinite(x) == Kind(x) = "number"

\* z.number().finite().min(lo).max(hi), over the integers
ZNumber(x, lo, hi) == Kind(x) = "number" /\ Val(x) >= lo /\ Val(x) <= hi

\* z.boolean()
ZBoolean(x) == Kind(x) = "boolean"

\* z.enum(values)
ZEnum(x, values) == Kind(x) = "string" /\ Val(x) \in values

\* z.array(z.string())
ZStringArray(x) ==
    Kind(x) = "array" /\ \A i \in DOMAIN Val(x) : ZString(Val(x)[i])

\* z.record(z.string(), z.boolean())
ZBooleanRecord(x) ==
    Kind(x) = "object" /\ \A k \in DOMAIN Val(x) : ZBoolean(Val(x)[k])

\* z.record(z.string(), z.any())
ZAnyRecord(x) == Kind(x) = "object"

\* .optional(): undefined passes, anything else has to pass the schema
Optional(x, ok) == x = Undefined \/ ok

\* what z.object parses x to when it does not keep unknown keys
Strip(x, keys) ==
    IF Kind(x) = "object"
    THEN Obj([ k \in DOMAIN Val(x) \cap keys |-> Val(x)[k] ])
    ELSE x

\* the largest integer within 2 * Math.PI
TWO_PI == 6

\* the least integer that is at least 0.1
ZOOM_MIN == 1

ElementTypes ==
    {
      <<114, 101, 99, 116, 97, 110, 103, 108, 101>>,    \* rectangle
      <<101, 108, 108, 105, 112, 115, 101>>,    \* ellipse
      <<100, 105, 97, 109, 111, 110, 100>>,    \* diamond
      <<97, 114, 114, 111, 119>>,    \* arrow
      <<108, 105, 110, 101>>,    \* line
      <<116, 101, 120, 116>>,    \* text
      <<105, 109, 97, 103, 101>>,    \* image
      <<102, 114, 97, 109, 101>>,    \* frame
      <<101, 109, 98, 101, 100>>,    \* embed
      <<115, 101, 108, 101, 99, 116, 105, 111, 110>>,    \* selection
      <<116, 101, 120, 116, 45, 99, 111, 110, 116, 97, 105, 110, 101,
        114>> }    \* text-container

FillStyles ==
    {
      <<115, 111, 108, 105, 100>>,    \* solid
      <<104, 97, 99, 104, 117, 114, 101>>,    \* hachure
      <<99, 114, 111, 115, 115, 45, 104, 97, 116, 99, 104>>,    \* cross-hatch
      <<100, 111, 116, 115>> }    \* dots

StrokeStyles ==
    {
      <<115, 111, 108, 105, 100>>,    \* solid
      <<100, 97, 115, 104, 101, 100>>,    \* dashed
      <<100, 111, 116, 116, 101, 100>> }    \* dotted

RoundnessTypes ==
    {
      <<114, 111, 117, 110, 100>>,    \* round
      <<115, 104, 97, 114, 112>> }    \* sharp

TextAligns ==
    {
      <<108, 101, 102, 116>>,    \* left
      <<99, 101, 110, 116, 101, 114>>,    \* center
      <<114, 105, 103, 104, 116>> }    \* right

VerticalAligns ==
    {
      <<116, 111, 112>>,    \* top
      <<109, 105, 100, 100, 108, 101>>,    \* middle
      <<98, 111, 116, 116, 111, 109>> }    \* bottom

\* z.object({ type: z.enum(["round", "sharp"]), value: ... min(0).max(1) })
ZRoundness(x) ==
    /\ Kind(x) = "object"
    /\ ZEnum(Get(x, "type"), RoundnessTypes)
    /\ ZNumber(Get(x, "value"), 0, 1)

\* z.array(z.object({ id: z.string(), type: z.string() }))
ZBoundElements(x) ==
    /\ Kind(x) = "array"
    /\ \A i \in DOMAIN Val(x) :
          /\ Kind(Val(x)[i]) = "object"
          /\ ZString(Get(Val(x)[i], "id"))
          /\ ZString(Get(Val(x)[i], "type"))

\* the keys of elementSchema
ElementKeys ==
    { "id", "type", "x", "y", "width", "height", "angle", "strokeColor",
      "backgroundColor", "fillStyle", "strokeWidth", "strokeStyle", "roundness",
      "boundElements", "groupIds", "frameId", "seed", "version", "versionNonce",
      "isDeleted", "opacity", "link", "locked", "text", "fontSize", "fontFamily",
      "textAlign", "verticalAlign", "customData" }

\* sanitizeText's maxLength for the text of an element
ELEMENT_TEXT_MAX == 5000

\* mutant: unknown keys of an element are let through (and dropped)
ElementStripped(e) == TRUE

\* .strict(): the keys of e are keys of elementSchema
ElementStrict(e) == DOMAIN Val(e) \subseteq ElementKeys

\* elementSchema accepts e
ElementOk(e) ==
    /\ Kind(e) = "object"
    /\ ElementStrict(e)
    /\ ZStringLen(Get(e, "id"), 1, 100)
    /\ ZEnum(Get(e, "type"), ElementTypes)
    /\ ZNumber(Get(e, "x"), -100000, 100000)
    /\ ZNumber(Get(e, "y"), -100000, 100000)
    /\ ZNumber(Get(e, "width"), 0, 100000)
    /\ ZNumber(Get(e, "height"), 0, 100000)
    /\ ZNumber(Get(e, "angle"), -TWO_PI, TWO_PI)
    /\ Optional(Get(e, "strokeColor"), ZString(Get(e, "strokeColor")))
    /\ Optional(Get(e, "backgroundColor"), ZString(Get(e, "backgroundColor")))
    /\ Optional(Get(e, "fillStyle"), ZEnum(Get(e, "fillStyle"), FillStyles))
    /\ Optional(Get(e, "strokeWidth"), ZNumber(Get(e, "strokeWidth"), 0, 10))
    /\ Optional(Get(e, "strokeStyle"), ZEnum(Get(e, "strokeStyle"), StrokeStyles))
    /\ Optional(Get(e, "roundness"), ZRoundness(Get(e, "roundness")))
    /\ Optional(Get(e, "boundElements"), ZBoundElements(Get(e, "boundElements")))
    /\ Optional(Get(e, "groupIds"), ZStringArray(Get(e, "groupIds")))
    /\ Optional(Get(e, "frameId"), ZString(Get(e, "frameId")))
    /\ Optional(Get(e, "seed"), ZFinite(Get(e, "seed")))
    /\ ZNumber(Get(e, "version"), 0, 100000)
    /\ ZNumber(Get(e, "versionNonce"), 0, 100000)
    /\ Optional(Get(e, "isDeleted"), ZBoolean(Get(e, "isDeleted")))
    /\ Optional(Get(e, "opacity"), ZNumber(Get(e, "opacity"), 0, 1))
    /\ Optional(Get(e, "link"), ZString(Get(e, "link")))
    /\ Optional(Get(e, "locked"), ZBoolean(Get(e, "locked")))
    /\ Optional(Get(e, "text"), ZString(Get(e, "text")))
    /\ Optional(Get(e, "fontSize"), ZNumber(Get(e, "fontSize"), 1, 200))
    /\ Optional(Get(e, "fontFamily"), ZNumber(Get(e, "fontFamily"), 1, 5))
    /\ Optional(Get(e, "textAlign"), ZEnum(Get(e, "textAlign"), TextAligns))
    /\ Optional(Get(e, "verticalAlign"), ZEnum(Get(e, "verticalAlign"), VerticalAligns))
    /\ Optional(Get(e, "customData"), ZAnyRecord(Get(e, "customData")))

\* mutant: the element is returned as it came in, without the transforms
ElementParsedRaw(e) == e

\* what elementSchema parses an element it accepts to: link and text go
\* through their transforms also when they are absent, nested objects lose
\* their unknown keys, every other value is kept as it is
ElementParsed(e) ==
    Obj([ k \in (DOMAIN Val(e) \cap ElementKeys) \cup { "link", "text" } |->
            CASE k = "link" -> Str(SanitizeUrl(Get(e, "link")))
              [] k = "text" -> Str(SanitizeText(Get(e, "text"), ELEMENT_TEXT_MAX))
              [] k = "roundness" -> Strip(Val(e)[k], { "type", "value" })
              [] k = "boundElements" /\ Kind(Val(e)[k]) = "array" ->
                     Arr([ i \in DOMAIN Val(Val(e)[k]) |->
                             Strip(Val(Val(e)[k])[i], { "id", "type" }) ])
              [] OTHER -> Val(e)[k] ])

\* elementSchema.array() accepts x
ElementsOk(x) == Kind(x) = "array" /\ \A i \in DOMAIN Val(x) : ElementOk(Val(x)[i])

\* what elementSchema.array() parses x to
ElementsParsed(x) == Arr([ i \in DOMAIN Val(x) |-> ElementParsed(Val(x)[i]) ])

\* the declared keys of appStateSchema
AppStateKeys ==
    { "gridSize", "gridStep", "viewBackgroundColor", "currentItemStrokeColor",
      "currentItemBackgroundColor", "currentItemFillStyle",
      "currentItemStrokeWidth", "currentItemStrokeStyle", "currentItemRoundness",
      "currentItemFontSize", "currentItemFontFamily", "currentItemTextAlign",
      "currentItemVerticalAlign", "scrollX", "scrollY", "zoom", "selection",
      "selectedElementIds", "selectedGroupIds", "activeEmbeddable", "activeTool",
      "cursorX", "cursorY" }

\* sanitizeText's maxLength in the catchall of appStateSchema
CATCHALL_TEXT_MAX == 1000

\* z.any().refine(...): a value that is a string passes when sanitizeText
\* returns a truthy value for it, i.e. a string that is not empty; a value
\* that is not a string passes
CatchallOk(val) ==
    Kind(val) = "string" => SanitizeText(val, CATCHALL_TEXT_MAX) # << >>

\* appStateSchema accepts a: the declared keys by their schemas, every other
\* key by the catchall (which takes the place of .strict())
AppStateOk(a) ==
    /\ Kind(a) = "object"
    /\ \A k \in DOMAIN Val(a) \ AppStateKeys : CatchallOk(Val(a)[k])
    /\ Optional(Get(a, "gridSize"), ZNumber(Get(a, "gridSize"), 0, 100))
    /\ Optional(Get(a, "gridStep"), ZNumber(Get(a, "gridStep"), 1, 100))
    /\ Optional(Get(a, "viewBackgroundColor"), ZString(Get(a, "viewBackgroundColor")))
    /\ Optional(Get(a, "currentItemStrokeColor"),
                ZString(Get(a, "currentItemStrokeColor")))
    /\ Optional(Get(a, "currentItemBackgroundColor"),
                ZString(Get(a, "currentItemBackgroundColor")))
    /\ Optional(Get(a, "currentItemFillStyle"),
                ZEnum(Get(a, "currentItemFillStyle"), FillStyles))
    /\ Optional(Get(a, "currentItemStrokeWidth"),
                ZNumber(Get(a, "currentItemStrokeWidth"), 0, 10))
    /\ Optional(Get(a, "currentItemStrokeStyle"),
                ZEnum(Get(a, "currentItemStrokeStyle"), StrokeStyles))
    /\ Optional(Get(a, "currentItemRoundness"), ZRoundness(Get(a, "currentItemRoundness")))
    /\ Optional(Get(a, "currentItemFontSize"),
                ZNumber(Get(a, "currentItemFontSize"), 1, 200))
    /\ Optional(Get(a, "currentItemFontFamily"),
                ZNumber(Get(a, "currentItemFontFamily"), 1, 5))
    /\ Optional(Get(a, "currentItemTextAlign"),
                ZEnum(Get(a, "currentItemTextAlign"), TextAligns))
    /\ Optional(Get(a, "currentItemVerticalAlign"),
                ZEnum(Get(a, "currentItemVerticalAlign"), VerticalAligns))
    /\ Optional(Get(a, "scrollX"), ZNumber(Get(a, "scrollX"), -1000000, 1000000))
    /\ Optional(Get(a, "scrollY"), ZNumber(Get(a, "scrollY"), -1000000, 1000000))
    /\ Optional(Get(a, "zoom"),
                /\ Kind(Get(a, "zoom")) = "object"
                /\ ZNumber(Get(Get(a, "zoom"), "value"), ZOOM_MIN, 10))
    /\ Optional(Get(a, "selection"), ZStringArray(Get(a, "selection")))
    /\ Optional(Get(a, "selectedElementIds"), ZBooleanRecord(Get(a, "selectedElementIds")))
    /\ Optional(Get(a, "selectedGroupIds"), ZBooleanRecord(Get(a, "selectedGroupIds")))
    /\ Optional(Get(a, "activeEmbeddable"),
                /\ Kind(Get(a, "activeEmbeddable")) = "object"
                /\ ZString(Get(Get(a, "activeEmbeddable"), "elementId"))
                /\ ZString(Get(Get(a, "activeEmbeddable"), "state")))
    /\ Optional(Get(a, "activeTool"),
                /\ Kind(Get(a, "activeTool")) = "object"
                /\ ZString(Get(Get(a, "activeTool"), "type"))
                /\ Optional(Get(Get(a, "activeTool"), "customType"),
                            ZString(Get(Get(a, "activeTool"), "customType"))))
    /\ Optional(Get(a, "cursorX"), ZFinite(Get(a, "cursorX")))
    /\ Optional(Get(a, "cursorY"), ZFinite(Get(a, "cursorY")))

\* what appStateSchema parses an appState it accepts to: nested objects lose
\* their unknown keys, every other value is kept as it is (the schema has no
\* transform, and a refinement does not change the value)
AppStateParsed(a) ==
    Obj([ k \in DOMAIN Val(a) |->
            CASE k = "currentItemRoundness" -> Strip(Val(a)[k], { "type", "value" })
              [] k = "zoom" -> Strip(Val(a)[k], { "value" })
              [] k = "activeEmbeddable" -> Strip(Val(a)[k], { "elementId", "state" })
              [] k = "activeTool" -> Strip(Val(a)[k], { "type", "customType" })
              [] OTHER -> Val(a)[k] ])

\* ------------------------------------------------------ sanitizeDrawingData

\* sanitizeText's maxLength for the strings of files
FILES_TEXT_MAX == 10000

\* elements beyond which validateImportedDrawing gives up
MAX_ELEMENTS == 10000

\* Invalid or malicious drawing data detected
InvalidData ==
    <<73, 110, 118, 97, 108, 105, 100, 32, 111, 114, 32, 109, 97, 108, 105,
      99, 105, 111, 117, 115, 32, 100, 114, 97, 119, 105, 110, 103, 32, 100,
      97, 116, 97, 32, 100, 101, 116, 101, 99, 116, 101, 100>>

RECURSIVE JsonSanitized(_)
\* JSON.parse(JSON.stringify(x, replacer)) with the replacer that puts every
\* string through sanitizeText: property values that are undefined are
\* dropped, array entries that are undefined become null, keys are kept
JsonSanitized(x) ==
    CASE Kind(x) = "string" -> Str(SanitizeText(x, FILES_TEXT_MAX))
      [] Kind(x) = "array" ->
             Arr([ i \in DOMAIN Val(x) |->
                     IF Val(x)[i] = Undefined THEN JsNull
                     ELSE JsonSanitized(Val(x)[i]) ])
      [] Kind(x) = "object" ->
             Obj([ k \in { j \in DOMAIN Val(x) : Val(x)[j] # Undefined } |->
                     JsonSanitized(Val(x)[k]) ])
      [] OTHER -> x

\* sanitizeDrawingData(data) returns: both schemas accept.  (data.elements of
\* null or undefined throws a TypeError, of any other value that is not an
\* object is undefined, and both end in the catch block.)
DrawingOk(data) ==
    /\ ElementsOk(Get(data, "elements"))
    /\ AppStateOk(Get(data, "appState"))

\* sanitizedPreview
PreviewSanitized(preview) ==
    IF TypeOf(preview) = "string" THEN Str(SanitizeSvg(preview)) ELSE preview

\* sanitizedFiles
FilesSanitized(files) ==
    IF TypeOf(files) = "object" /\ files # JsNull THEN JsonSanitized(files) ELSE files

\* what sanitizeDrawingData(data) returns when it returns
DrawingSanitized(data) ==
    Obj([ elements |-> ElementsParsed(Get(data, "elements")),
          appState |-> AppStateParsed(Get(data, "appState")),
          files    |-> FilesSanitized(Get(data, "files")),
          preview  |-> PreviewSanitized(Get(data, "preview")) ])

\* !data
Falsy(x) ==
    \/ Kind(x) \in { "undefined", "null" }
    \/ x \in { Num(0), Str(<< >>), Bool(FALSE) }

\* mutant: one element more is let through
TooManyElementsOffByOne(elements) == Len(Val(elements)) > MAX_ELEMENTS + 1

\* data.elements.length > 10000
TooManyElements(elements) == Len(Val(elements)) > MAX_ELEMENTS

\* validateImportedDrawing(data)
ValidateImportedDrawing(data) ==
    IF Falsy(data) \/ TypeOf(data) # "object" THEN FALSE
    ELSE IF Kind(Get(data, "elements")) # "array" THEN FALSE
    ELSE IF TypeOf(Get(data, "appState")) # "object" THEN FALSE
    ELSE IF TooManyElements(Get(data, "elements")) THEN FALSE
    ELSE IF ~DrawingOk(data) THEN FALSE
    ELSE IF Len(Val(Get(DrawingSanitized(data), "elements")))
              # Len(Val(Get(data, "elements"))) THEN FALSE
    ELSE TRUE

\* ------------------------------------------------------ drawings: the calls

\* Normal text content
TextNormal ==
    <<78, 111, 114, 109, 97, 108, 32, 116, 101, 120, 116, 32, 99, 111, 110,
      116, 101, 110, 116>>
\* <script>alert('XSS')</script>Malicious text
TextScript ==
    <<60, 115, 99, 114, 105, 112, 116, 62, 97, 108, 101, 114, 116, 40, 39,
      88, 83, 83, 39, 41, 60, 47, 115, 99, 114, 105, 112, 116, 62, 77, 97,
      108, 105, 99, 105, 111, 117, 115, 32, 116, 101, 120, 116>>
\* <script>alert('XSS')</script>
ScriptOnly ==
    <<60, 115, 99, 114, 105, 112, 116, 62, 97, 108, 101, 114, 116, 40, 39,
      88, 83, 83, 39, 41, 60, 47, 115, 99, 114, 105, 112, 116, 62>>
\* https://example.com
LinkHttps ==
    <<104, 116, 116, 112, 115, 58, 47, 47, 101, 120, 97, 109, 112, 108, 101,
      46, 99, 111, 109>>
\* javascript:alert('XSS')
LinkJavascript ==
    <<106, 97, 118, 97, 115, 99, 114, 105, 112, 116, 58, 97, 108, 101, 114,
      116, 40, 39, 88, 83, 83, 39, 41>>
\* #ffffff
ColorWhite ==
    <<35, 102, 102, 102, 102, 102, 102>>
\* <svg><rect width="100" height="100" fill="blue"/></svg>
PreviewLegit ==
    <<60, 115, 118, 103, 62, 60, 114, 101, 99, 116, 32, 119, 105, 100, 116,
      104, 61, 34, 49, 48, 48, 34, 32, 104, 101, 105, 103, 104, 116, 61, 34,
      49, 48, 48, 34, 32, 102, 105, 108, 108, 61, 34, 98, 108, 117, 101, 34,
      47, 62, 60, 47, 115, 118, 103, 62>>
\* <svg><script>alert("XSS")</script></svg>
PreviewScript ==
    <<60, 115, 118, 103, 62, 60, 115, 99, 114, 105, 112, 116, 62, 97, 108,
      101, 114, 116, 40, 34, 88, 83, 83, 34, 41, 60, 47, 115, 99, 114, 105,
      112, 116, 62, 60, 47, 115, 118, 103, 62>>
\* dark
Dark ==
    <<100, 97, 114, 107>>
\* three spaces
Spaces ==
    <<32, 32, 32>>
\* image/png
ImagePng ==
    <<105, 109, 97, 103, 101, 47, 112, 110, 103>>
\* legit1
IdLegit1 ==
    <<108, 101, 103, 105, 116, 49>>
\* legit2
IdLegit2 ==
    <<108, 101, 103, 105, 116, 50>>
\* test1
IdTest1 ==
    <<116, 101, 115, 116, 49>>
\* test2
IdTest2 ==
    <<116, 101, 115, 116, 50>>
\* text
TypeText ==
    <<116, 101, 120, 116>>
\* rectangle
TypeRectangle ==
    <<114, 101, 99, 116, 97, 110, 103, 108, 101>>

\* the object o with o[k] = v
With(o, k, v) == [ x \in DOMAIN o \cup { k } |-> IF x = k THEN v ELSE o[x] ]

\* the object o without the key k
Without(o, k) == [ x \in DOMAIN o \ { k } |-> o[x] ]

\* the properties every element of the test drawings has
Element(id, type, x, y, width, height) ==
    [ id |-> Str(id), type |-> Str(type), x |-> Num(x), y |-> Num(y),
      width |-> Num(width), height |-> Num(height), angle |-> Num(0),
      version |-> Num(1), versionNonce |-> Num(1) ]

\* the elements of legitimateDrawing
Legit1 == Obj(With(Element(IdLegit1, TypeText, 0, 0, 100, 50), "text", Str(TextNormal)))
Legit2 ==
    Obj(With(Element(IdLegit2, TypeRectangle, 10, 10, 100, 100), "link", Str(LinkHttps)))

\* the elements of maliciousDrawing
Test1 == Obj(With(Element(IdTest1, TypeText, 0, 0, 100, 50), "text", Str(TextScript)))
Test2 ==
    Obj(With(Element(IdTest2, TypeRectangle, 10, 10, 100, 100), "link",
             Str(LinkJavascript)))

\* an element with the required properties and no other
Minimal == Obj(Element(IdLegit1, TypeRectangle, 0, 0, 100, 100))

\* legit2 with a property elementSchema does not declare
ExtraKey == Obj(With(Val(Legit2), "onclick", Str(Dark)))

\* legit2 without its id
NoId == Obj(Without(Val(Legit2), "id"))

\* legit2 turned by more than 2 * Math.PI
BadAngle == Obj(With(Val(Legit2), "angle", Num(TWO_PI + 1)))

\* legit2 with a text and a link that have white space around them
Padded ==
    Obj(With(With(Val(Legit2), "text", Str(<<32>> \o TextNormal \o <<10>>)),
             "link", Str(<<32>> \o LinkHttps)))
\* the elements the drawings are put together from
ElementPool ==
    { Legit1, Legit2, Test1, Test2, Minimal, ExtraKey, NoId, BadAngle, Padded }

\* the element arrays of at most MaxElements elements
ElementLists == UNION { [1..n -> ElementPool] : n \in 0..MaxElements }

\* the appState of legitimateDrawing, and of maliciousDrawing
AppWhite == Obj([ viewBackgroundColor |-> Str(ColorWhite) ])
AppScript == Obj([ viewBackgroundColor |-> Str(ScriptOnly) ])

\* values of a property appStateSchema does not declare
UnknownValues ==
    { Str(Dark), Str(ScriptOnly), Str(TextScript), Str(<< >>), Str(Spaces), Num(1),
      JsNull, Bool(FALSE),
      Obj([ inner |-> Str(Dark) ]),
      Obj([ inner |-> Str(ScriptOnly) ]),
      Arr(<< Str(Dark), Str(ScriptOnly) >>),
      Obj([ inner |-> Arr(<< Str(<< >>) >>) ]) }

\* values of appState
AppStates ==
    { AppWhite, AppScript, Obj(<< >>), JsNull, Undefined, Str(Dark), Num(1), Arr(<< >>),
      Obj([ gridSize |-> Num(1000) ]),
      Obj([ gridSize |-> Num(20), zoom |-> Obj([ value |-> Num(0) ]) ]),
      Obj([ gridSize |-> Num(20), zoom |-> Obj([ value |-> Num(1) ]),
            currentItemFillStyle |-> Str(Dark) ]),
      Obj([ gridSize |-> Num(20), zoom |-> Obj([ value |-> Num(1), extra |-> Num(1) ]),
            selectedElementIds |-> Obj([ legit1 |-> Bool(TRUE) ]) ]) }
      \cup { Obj(With(Val(AppWhite), "theme", v)) : v \in UnknownValues }
      \cup { Obj([ gridSize |-> Num(1000), theme |-> v ]) : v \in { Str(Dark), Str(ScriptOnly) } }

\* values of files
FilesValues ==
    { JsNull, Undefined, Str(ScriptOnly), Obj(<< >>),
      Obj([ file1 |-> Obj([ mimeType |-> Str(ImagePng), dataURL |-> Str(TextScript),
                            created |-> Num(1), note |-> Undefined ]) ]),
      Arr(<< Str(ScriptOnly), Undefined, Num(1) >>) }

\* values of preview
Previews == { Str(PreviewLegit), Str(PreviewScript), JsNull, Undefined }

\* { elements, appState, files, preview }
Drawing(elements, appState, files, preview) ==
    Obj([ elements |-> elements, appState |-> appState, files |-> files,
          preview |-> preview ])

\* legitimateDrawing
LegitimateDrawing ==
    Drawing(Arr(<< Legit1, Legit2 >>), AppWhite, JsNull, Str(PreviewLegit))

\* maliciousDrawing
MaliciousDrawing ==
    Drawing(Arr(<< Test1, Test2 >>), AppScript, JsNull, Str(PreviewScript))

\* a drawing of n minimal elements
ManyElements(n) ==
    Drawing(Arr([ i \in 1..n |-> Minimal ]), AppWhite, JsNull, Str(PreviewLegit))

\* the values passed to sanitizeDrawingData and validateImportedDrawing:
\* legitimateDrawing with one of its parts replaced, maliciousDrawing, drawings
\* at the limit of the element count, and values that are not drawings
Drawings ==
    { Drawing(Arr(elements), AppWhite, JsNull, Str(PreviewLegit)) :
          elements \in ElementLists }
      \cup { Drawing(Arr(<< Legit1, Legit2 >>), appState, JsNull, Str(PreviewLegit)) :
                 appState \in AppStates }
      \cup { Drawing(Arr(<< Legit1, Legit2 >>), AppWhite, files, preview) :
                 files \in FilesValues, preview \in Previews }
      \cup { Drawing(elements, AppWhite, JsNull, Str(PreviewLegit)) :
                 elements \in { Undefined, JsNull, Str(Dark), Obj(<< >>) } }
      \cup { Drawing(Arr(<< Test1 >>), AppWhite, JsNull, Str(PreviewLegit)),
             Drawing(Arr(<< Test2 >>), AppWhite, JsNull, Str(PreviewLegit)),
             MaliciousDrawing,
             ManyElements(MAX_ELEMENTS), ManyElements(MAX_ELEMENTS + 1),
             Obj([ elements |-> Arr(<< Legit1 >>) ]),
             Obj(<< >>), Arr(<< >>), Undefined, JsNull, Num(0), Num(1), Str(Dark),
             Str(<< >>), Bool(TRUE), Bool(FALSE) }

\* ZodError
ZodError ==
    <<90, 111, 100, 69, 114, 114, 111, 114>>

\* a call of elementSchema.parse(e)
CallElementSchemaParse(e) ==
    /\ san = NoCall
    /\ san' = IF ElementOk(e)
              THEN Returned("elementSchema.parse", <<e>>, ElementParsed(e))
              ELSE Threw("elementSchema.parse", <<e>>, ZodError)
    /\ UNCHANGED <<frontendVars, clockVars, envVars, rateVars, sessionVars,
                 credVars>>

\* a call of appStateSchema.parse(appState)
CallAppStateSchemaParse(appState) ==
    /\ san = NoCall
    /\ san' = IF AppStateOk(appState)
              THEN Returned("appStateSchema.parse", <<appState>>,
                            AppStateParsed(appState))
              ELSE Threw("appStateSchema.parse", <<appState>>, ZodError)
    /\ UNCHANGED <<frontendVars, clockVars, envVars, rateVars, sessionVars,
                 credVars>>

\* a call of sanitizeDrawingData(data)
CallSanitizeDrawingData(data) ==
    /\ san = NoCall
    /\ san' = IF DrawingOk(data)
              THEN Returned("sanitizeDrawingData", <<data>>, DrawingSanitized(data))
              ELSE Threw("sanitizeDrawingData", <<data>>, InvalidData)
    /\ UNCHANGED <<frontendVars, clockVars, envVars, rateVars, sessionVars,
                 credVars>>

\* a call of validateImportedDrawing(data)
CallValidateImportedDrawing(data) ==
    /\ san = NoCall
    /\ san' = Returned("validateImportedDrawing", <<data>>,
                       Bool(ValidateImportedDrawing(data)))
    /\ UNCHANGED <<frontendVars, clockVars, envVars, rateVars, sessionVars,
                 credVars>>

NextDrawing ==
    \/ \E e \in ElementPool \cup { JsNull, Arr(<< >>) } : CallElementSchemaParse(e)
    \/ \E appState \in AppStates : CallAppStateSchemaParse(appState)
    \/ \E data \in Drawings : CallSanitizeDrawingData(data)
    \/ \E data \in Drawings : CallValidateImportedDrawing(data)

SpecDrawing == InitServing /\ [][NextDrawing]_vars

\* ---------------------------------------------------- drawings: properties

\* the argument of the call
Arg == san.args[1]

\* the elements of a drawing, and those of what sanitizeDrawingData made of it
ElementsOf(data) == Val(Get(data, "elements"))

\* C15: validateImportedDrawing never throws and returns a boolean; it
\* returns false when the input is not an object, when elements is not an
\* array, when appState is not an object, when there are more than 10,000
\* elements, when sanitizeDrawingData throws, or when the number of sanitized
\* elements is not the number of elements; it returns true otherwise.
C15_ValidateNeverRaises ==
    san.fn = "validateImportedDrawing" =>
        LET rejected ==
               \/ Kind(Arg) # "object"
               \/ Kind(Get(Arg, "elements")) # "array"
               \/ Kind(Get(Arg, "appState")) # "object"
               \/ Len(ElementsOf(Arg)) > 10000
               \/ ~DrawingOk(Arg)
               \/ Len(ElementsOf(DrawingSanitized(Arg))) # Len(ElementsOf(Arg))
        IN /\ ~san.threw
           /\ san.output = Bool(~rejected)

\* C15 witness: validateImportedDrawing returned false for a drawing of
\* 10,001 minimal valid elements.
C15_Witness ==
    /\ san.fn = "validateImportedDrawing"
    /\ Kind(Arg) = "object"
    /\ Kind(Get(Arg, "elements")) = "array"
    /\ Len(ElementsOf(Arg)) = 10001
    /\ \A i \in DOMAIN ElementsOf(Arg) : ElementsOf(Arg)[i] = Minimal
    /\ AppStateOk(Get(Arg, "appState"))
    /\ san.output = Bool(FALSE)

\* x is a string that holds a script block
HoldsScript(x) == Kind(x) = "string" /\ Occurs("script", Val(x))

\* x is a string that is a javascript: URL
JavascriptUrl(x) == Kind(x) = "string" /\ At(Trim(Val(x)), 1, UrlJavascript)

\* a drawing of the right shape that carries malicious content
Malicious(data) ==
    /\ Kind(data) = "object"
    /\ Kind(Get(data, "elements")) = "array"
    /\ Kind(Get(data, "appState")) = "object"
    /\ \/ \E i \in DOMAIN ElementsOf(data) :
             \/ HoldsScript(Get(ElementsOf(data)[i], "text"))
             \/ JavascriptUrl(Get(ElementsOf(data)[i], "link"))
       \/ HoldsScript(Get(Get(data, "appState"), "viewBackgroundColor"))
       \/ HoldsScript(Get(data, "preview"))

\* C16: validateImportedDrawing returns false for a drawing of the right
\* shape in which an element text holds a script block, an element link is a
\* javascript: URL, appState.viewBackgroundColor holds a script block or the
\* preview holds a script element.
C16_MaliciousRejected ==
    ( san.fn = "validateImportedDrawing" /\ Malicious(Arg) ) =>
        san.output = Bool(FALSE)

\* C17: sanitizeDrawingData throws the generic error, or returns a drawing in
\* which the text and link of every element, every string value of appState,
\* every string inside files and the preview are what their sanitizer
\* (sanitizeText, sanitizeUrl, sanitizeSvg) makes of the input.
C17_AllOrNothing ==
    san.fn = "sanitizeDrawingData" =>
        IF san.threw THEN san.output = Str(InvalidData)
        ELSE LET in == ElementsOf(Arg)
                 out == ElementsOf(san.output)
                 appState == Val(Get(Arg, "appState"))
             IN /\ Len(out) = Len(in)
                /\ \A i \in DOMAIN in :
                      /\ Get(out[i], "text") = Str(SanitizeText(Get(in[i], "text"), 5000))
                      /\ Get(out[i], "link") = Str(SanitizeUrl(Get(in[i], "link")))
                /\ \A k \in DOMAIN appState :
                      Kind(appState[k]) = "string" =>
                          Get(Get(san.output, "appState"), k)
                              = Str(SanitizeText(appState[k], 1000))
                /\ Kind(Get(Arg, "files")) = "object" =>
                      Get(san.output, "files") = JsonSanitized(Get(Arg, "files"))
                /\ Kind(Get(Arg, "preview")) = "string" =>
                      Get(san.output, "preview") = Str(SanitizeSvg(Get(Arg, "preview")))

\* an element of the drawing carries a key the element schema does not declare
HasUndeclaredKey(data) ==
    \E i \in DOMAIN ElementsOf(data) :
        /\ Kind(ElementsOf(data)[i]) = "object"
        /\ ~(DOMAIN Val(ElementsOf(data)[i]) \subseteq ElementKeys)

\* C18: a drawing with an element that carries an undeclared key is rejected
\* as a whole: elementSchema.parse throws on the element, sanitizeDrawingData
\* throws the generic error and validateImportedDrawing returns false; the
\* key is not stripped.
C18_UndeclaredKeyRejected ==
    /\ ( san.fn = "elementSchema.parse" /\ Kind(Arg) = "object"
         /\ ~(DOMAIN Val(Arg) \subseteq ElementKeys) ) => san.threw
    /\ ( san.fn = "sanitizeDrawingData" /\ Kind(Get(Arg, "elements")) = "array"
         /\ HasUndeclaredKey(Arg) ) =>
           san.threw /\ san.output = Str(InvalidData)
    /\ ( san.fn = "validateImportedDrawing" /\ Kind(Arg) = "object"
         /\ Kind(Get(Arg, "elements")) = "array" /\ HasUndeclaredKey(Arg) ) =>
           ~san.threw /\ san.output = Bool(FALSE)

\* C18 witness: sanitizeDrawingData threw on a drawing whose only defect is an
\* element with an undeclared key.
C18_Witness ==
    /\ san.fn = "sanitizeDrawingData"
    /\ Kind(Get(Arg, "elements")) = "array"
    /\ HasUndeclaredKey(Arg)
    /\ \A i \in DOMAIN ElementsOf(Arg) :
          ElementOk(Strip(ElementsOf(Arg)[i], ElementKeys))
    /\ AppStateOk(Get(Arg, "appState"))
    /\ san.threw

\* the strings held by a value, at any depth
RECURSIVE StringsIn(_)
StringsIn(x) ==
    CASE Kind(x) = "string" -> { x }
      [] Kind(x) = "array" ->
            UNION { StringsIn(Val(x)[i]) : i \in DOMAIN Val(x) }
      [] Kind(x) = "object" ->
            UNION { StringsIn(Val(x)[k]) : k \in DOMAIN Val(x) }
      [] OTHER -> {}

\* C19: appStateSchema accepts fields it does not declare, and rejects the
\* appState when an undeclared field holds a string sanitizeText makes
\* nothing of, at any depth; with valid declared fields and no such string
\* it accepts.
C19_CatchallRejectsUnsanitizable ==
    ( san.fn = "appStateSchema.parse" /\ Kind(Arg) = "object" ) =>
        LET undeclared == DOMAIN Val(Arg) \ AppStateKeys
            unsanitizable ==
                \E k \in undeclared : \E s \in StringsIn(Val(Arg)[k]) :
                    SanitizeText(s, 1000) = << >>
        IN /\ unsanitizable => san.threw
           /\ ( ~unsanitizable /\ AppStateOk(Strip(Arg, AppStateKeys)) ) => ~san.threw

\* ------------------------------------------------------- URLs: the calls

\* pieces the URLs passed to sanitizeUrl are put together from
UrlChunks ==
    { <<106, 97, 118, 97, 115, 99, 114, 105, 112, 116, 58>>,    \* javascript:
      <<74, 97, 118, 97, 83, 99, 114, 105, 112, 116, 58>>,    \* JavaScript:
      <<100, 97, 116, 97, 58>>,    \* data:
      <<86, 66, 83, 67, 82, 73, 80, 84, 58>>,    \* VBSCRIPT:
      <<104, 116, 116, 112, 58, 47, 47>>,    \* http://
      <<104, 116, 116, 112, 115, 58, 47, 47>>,    \* https://
      <<72, 84, 84, 80, 83, 58, 47, 47>>,    \* HTTPS://
      <<109, 97, 105, 108, 116, 111, 58>>,    \* mailto:
      <<47>>,    \* /
      <<46>>,    \* .
      <<102, 116, 112, 58, 47, 47>>,    \* ftp://
      <<32>>,    \* a space
      <<97>> }    \* a

\* the URLs of the test of sanitizeUrl
TestUrls ==
    { <<106, 97, 118, 97, 115, 99, 114, 105, 112, 116, 58, 97, 108, 101, 114,
        116, 40, 39, 88, 83, 83, 39, 41>>,    \* javascript:alert('XSS')
      <<100, 97, 116, 97, 58, 116, 101, 120, 116, 47, 104, 116, 109, 108, 44,
        60, 115, 99, 114, 105, 112, 116, 62, 97, 108, 101, 114, 116, 40, 39,
        88, 83, 83, 39, 41, 60, 47, 115, 99, 114, 105, 112, 116, 62>>,    \* data:text/html,<script>alert('XSS')</script>
      <<118, 98, 115, 99, 114, 105, 112, 116, 58, 109, 115, 103, 98, 111,
        120, 40, 39, 88, 83, 83, 39, 41>>,    \* vbscript:msgbox('XSS')
      <<104, 116, 116, 112, 115, 58, 47, 47, 101, 120, 97, 109, 112, 108,
        101, 46, 99, 111, 109>>,    \* https://example.com
      <<47, 114, 101, 108, 97, 116, 105, 118, 101, 47, 112, 97, 116, 104>>,    \* /relative/path
      <<46, 47, 99, 117, 114, 114, 101, 110, 116, 47, 112, 97, 116, 104>>,    \* ./current/path
      <<46, 46, 47, 112, 97, 114, 101, 110, 116, 47, 112, 97, 116, 104>>,    \* ../parent/path
      <<109, 97, 105, 108, 116, 111, 58, 116, 101, 115, 116, 64, 101, 120,
        97, 109, 112, 108, 101, 46, 99, 111, 109>> }    \* mailto:test@example.com

\* the URLs of at most MaxChunks pieces, and those of the test
Urls ==
    { Flatten(w) : w \in UNION { [1..n -> UrlChunks] : n \in 0..MaxChunks } }
        \cup TestUrls

\* the values passed to sanitizeUrl: the URLs, and values that are not strings
UrlInputs == { Str(u) : u \in Urls } \cup { Undefined, JsNull, Num(7) }

NextUrl == \E url \in UrlInputs : CallSanitizeUrl(url)

SpecUrl == InitServing /\ [][NextUrl]_vars

\* ---------------------------------------------------- URLs: properties

\* s with the letters A-Z as a-z
Folded(s) == [ i \in DOMAIN s |-> ToLower(s[i]) ]

\* s begins with the lower-case literal lit, in any letter case
BeginsWith(s, lit) == Len(s) >= Len(lit) /\ SubSeq(Folded(s), 1, Len(lit)) = lit

\* the trimmed URL has one of the schemes sanitizeUrl blocks
BlockedScheme(trimmed) ==
    \/ BeginsWith(trimmed, UrlJavascript)
    \/ BeginsWith(trimmed, UrlData)
    \/ BeginsWith(trimmed, UrlVbscript)

\* the trimmed URL begins with one of the prefixes sanitizeUrl allows
AllowedPrefix(trimmed) ==
    \/ BeginsWith(trimmed, UrlHttp)
    \/ BeginsWith(trimmed, UrlHttps)
    \/ BeginsWith(trimmed, UrlMailto)
    \/ BeginsWith(trimmed, UrlRoot)
    \/ BeginsWith(trimmed, UrlHere)
    \/ BeginsWith(trimmed, UrlParent)

\* C21: sanitizeUrl returns the empty string or the trimmed input; the empty
\* string for input that is not a string and for a javascript:, data: or
\* vbscript: scheme in any letter case; the trimmed input exactly when it
\* begins with http://, https://, mailto:, /, ./ or ../.
C21_UrlAllowList ==
    san.fn = "sanitizeUrl" =>
        /\ ~san.threw
        /\ Kind(Arg) # "string" => san.output = Str(<< >>)
        /\ Kind(Arg) = "string" =>
              LET trimmed == Trim(Val(Arg))
              IN /\ san.output \in { Str(<< >>), Str(trimmed) }
                 /\ BlockedScheme(trimmed) => san.output = Str(<< >>)
                 /\ AllowedPrefix(trimmed) <=> san.output # Str(<< >>)
                 /\ AllowedPrefix(trimmed) => san.output = Str(trimmed)

\* C21 witness: sanitizeUrl returned an https:// URL written in capital
\* letters without the space around it.
C21_Witness ==
    /\ san.fn = "sanitizeUrl"
    /\ Kind(Arg) = "string"
    /\ Trim(Val(Arg)) # Val(Arg)
    /\ BeginsWith(Trim(Val(Arg)), UrlHttps)
    /\ SubSeq(Trim(Val(Arg)), 1, 5) # SubSeq(UrlHttps, 1, 5)
    /\ san.output = Str(Trim(Val(Arg)))

\* ------------------------------------------------------- text: the calls

\* pieces the strings passed to sanitizeText are put together from
TextChunks ==
    { <<97, 98>>,    \* ab
      <<10>>,    \* newline
      <<9>>,    \* tab
      <<0>>,    \* NUL
      <<97, 11>>,    \* a, vertical tab
      <<31>>,    \* unit separator
      <<127>>,    \* DEL
      <<32>>,    \* a space
      <<60, 115, 99, 114, 105, 112, 116, 62, 120, 60, 47, 115, 99, 114, 105,
        112, 116, 62>> }    \* <script>x</script>

\* "A".repeat(2000), and the bound it is cut to
LONG_TEXT_LENGTH == 2000
LONG_TEXT_BOUND == 500
LongText == [ i \in 1..LONG_TEXT_LENGTH |-> 65 ]

\* the strings of at most MaxChunks pieces
Texts == { Flatten(w) : w \in UNION { [1..n -> TextChunks] : n \in 0..MaxChunks } }

\* the values of maxLength
TextBounds == { 0, 3, DEFAULT_MAX_LENGTH }

\* the calls of sanitizeText
TextCalls ==
    ( ( { Str(s) : s \in Texts } \cup { Undefined, JsNull, Num(7) } ) \X TextBounds )
        \cup { <<Str(LongText), LONG_TEXT_BOUND>> }

NextText == \E call \in TextCalls : CallSanitizeText(call[1], call[2])

SpecText == InitServing /\ [][NextText]_vars

\* ---------------------------------------------------- text: properties

\* the control characters: codes 0-8, 11, 12, 14-31 and 127
IsControl(c) == c <= 8 \/ c = 11 \/ c = 12 \/ (14 <= c /\ c <= 31) \/ c = 127

\* the smaller of two numbers
Min(a, b) == IF a <= b THEN a ELSE b

\* s holds none of the characters <, : and =, one of which every pattern of
\* sanitizeHtml needs
NoMarkup(s) == \A i \in DOMAIN s : s[i] \notin { 60, 58, 61 }

\* the number of newlines and tabs of s
Breaks(s) == Cardinality({ i \in DOMAIN s : s[i] \in { 9, 10 } })

\* C22: for a string s of length L and a bound B, sanitizeText(s, B) is at
\* most min(L, B) long and holds no control character; the newlines and tabs
\* inside the kept text are preserved; for input that is not a string it
\* returns the empty string.
C22_TextBounded ==
    san.fn = "sanitizeText" =>
        LET s == Val(Arg)
            B == Val(san.args[2])
            out == Val(san.output)
        IN /\ ~san.threw
           /\ Kind(Arg) # "string" => out = << >>
           /\ Kind(Arg) = "string" =>
                 /\ Len(out) <= Min(Len(s), B)
                 /\ \A i \in DOMAIN out : ~IsControl(out[i])
                 /\ NoMarkup(s) =>
                       LET kept == LET clean == SelectSeq(s, LAMBDA c : ~IsControl(c))
                                   IN Trim(SubSeq(clean, 1, Min(Len(clean), B)))
                       IN out = kept /\ Breaks(out) = Breaks(kept)

\* C22 witness: sanitizeText cut a string with a control character to its
\* bound and kept a newline inside it.
C22_Witness ==
    /\ san.fn = "sanitizeText"
    /\ Kind(Arg) = "string"
    /\ \E i \in DOMAIN Val(Arg) : IsControl(Val(Arg)[i])
    /\ Len(Val(Arg)) > Val(san.args[2])
    /\ Len(Val(san.output)) = Val(san.args[2])
    /\ \E i \in 2..(Len(Val(san.output)) - 1) : Val(san.output)[i] = 10

\* ------------------------------------------- legitimate drawings: properties

\* x is a string with no control character and nothing sanitizeHtml removes
BenignText(x) ==
    /\ Kind(x) = "string"
    /\ \A i \in DOMAIN Val(x) : ~IsControl(Val(x)[i])
    /\ \A pattern \in { "script", "javascript:", "on", "iframe", "object", "embed",
                        "link", "style" } : ~Occurs(pattern, Val(x))

\* x is a string that is an http:// or https:// URL
BenignLink(x) ==
    /\ Kind(x) = "string"
    /\ BeginsWith(Trim(Val(x)), UrlHttp) \/ BeginsWith(Trim(Val(x)), UrlHttps)

\* a legitimate drawing: the elements and the appState conform to the schemas
\* and no field holds dangerous content
Legitimate(data) ==
    /\ Kind(data) = "object"
    /\ Kind(Get(data, "elements")) = "array"
    /\ Kind(Get(data, "appState")) = "object"
    /\ DrawingOk(data)
    /\ \A i \in DOMAIN ElementsOf(data) :
          LET text == Get(ElementsOf(data)[i], "text")
              link == Get(ElementsOf(data)[i], "link")
          IN /\ text = Undefined \/ BenignText(text)
             /\ link = Undefined \/ BenignLink(link)
    /\ \A s \in StringsIn(Get(data, "appState")) : BenignText(s)
    /\ \A s \in StringsIn(Get(data, "files")) : BenignText(s)
    /\ ~HoldsScript(Get(data, "preview"))

\* C23 as stated: a legitimate drawing is accepted by validateImportedDrawing,
\* sanitizeDrawingData does not throw on it and keeps the number of elements,
\* and the text and the link of every element come back identical to the
\* input.
C23_LegitimateAccepted ==
    /\ ( san.fn = "validateImportedDrawing" /\ Legitimate(Arg) ) =>
           san.output = Bool(TRUE)
    /\ ( san.fn = "sanitizeDrawingData" /\ Legitimate(Arg) ) =>
           /\ ~san.threw
           /\ Len(ElementsOf(san.output)) = Len(ElementsOf(Arg))
           /\ \A i \in DOMAIN ElementsOf(Arg) :
                 LET in == ElementsOf(Arg)[i]
                     out == ElementsOf(san.output)[i]
                 IN /\ Kind(Get(in, "text")) = "string" =>
                          Get(out, "text") = Get(in, "text")
                    /\ Kind(Get(in, "link")) = "string" =>
                          Get(out, "link") = Get(in, "link")

\* s has no white space at either end
Trimmed(s) == s = << >> \/ ( Head(s) \notin WhiteSpace /\ s[Len(s)] \notin WhiteSpace )

\* s without the white space at its ends
RECURSIVE Bare(_)
Bare(s) ==
    IF Trimmed(s) THEN s
    ELSE IF Head(s) \in WhiteSpace THEN Bare(Tail(s))
    ELSE Bare(SubSeq(s, 1, Len(s) - 1))

\* C23 amended: a legitimate drawing of at most 10,000 elements is accepted by
\* validateImportedDrawing, and one of more elements is not; sanitizeDrawingData
\* does not throw on a legitimate drawing and keeps the number of elements; a
\* text of at most 5,000 characters and a link come back without the white
\* space at their ends, identical to the input when it has none.
C23_LegitimateAcceptedTrimmed ==
    /\ ( san.fn = "validateImportedDrawing" /\ Legitimate(Arg) ) =>
           san.output = Bool(Len(ElementsOf(Arg)) <= 10000)
    /\ ( san.fn = "sanitizeDrawingData" /\ Legitimate(Arg) ) =>
           /\ ~san.threw
           /\ Len(ElementsOf(san.output)) = Len(ElementsOf(Arg))
           /\ \A i \in DOMAIN ElementsOf(Arg) :
                 LET in == ElementsOf(Arg)[i]
                     out == ElementsOf(san.output)[i]
                 IN /\ ( Kind(Get(in, "text")) = "string"
                         /\ Len(Val(Get(in, "text"))) <= 5000 ) =>
                          Get(out, "text") = Str(Bare(Val(Get(in, "text"))))
                    /\ Kind(Get(in, "link")) = "string" =>
                          Get(out, "link") = Str(Bare(Val(Get(in, "link"))))

\* C23 witness: sanitizeDrawingData returned a legitimate drawing with a text
\* kept as it was and a text that lost the white space at its ends.
C23_Witness ==
    /\ san.fn = "sanitizeDrawingData"
    /\ Legitimate(Arg)
    /\ ~san.threw
    /\ \E i, j \in DOMAIN ElementsOf(Arg) :
          /\ Kind(Get(ElementsOf(Arg)[i], "text")) = "string"
          /\ Get(ElementsOf(san.output)[i], "text") = Get(ElementsOf(Arg)[i], "text")
          /\ Kind(Get(ElementsOf(Arg)[j], "text")) = "string"
          /\ Get(ElementsOf(san.output)[j], "text") # Get(ElementsOf(Arg)[j], "text")
          /\ Kind(Get(ElementsOf(Arg)[j], "link")) = "string"
          /\ Get(ElementsOf(san.output)[j], "link") # Get(ElementsOf(Arg)[j], "link")

\* ------------------------------------------- session store: the invariant

\* C24: getSession(t) returns a session only if createSession produced t,
\* destroySession was not called with t since, and now <= the expiresAt set
\* at its creation, and it returns the record as it was created; no operation
\* alters a stored record or its expiresAt, and only createSession inserts a
\* token, one that was never in the table before.
C24_SessionsOnlyShrink ==
    /\ []( ( resp.op = "getSession" /\ resp.found # {} ) =>
              /\ resp.token \in DOMAIN issued
              /\ resp.token \notin destroyed
              /\ resp.t <= issued[resp.token].expiresAt
              /\ resp.found = { issued[resp.token] } )
    /\ [](\A id \in DOMAIN sessions :
              id \in DOMAIN issued /\ sessions[id] = issued[id])
    /\ [][ \A id \in DOMAIN sessions' :
              IF id \in DOMAIN sessions
              THEN sessions'[id] = sessions[id]
              ELSE StepOf("createSession") /\ id \notin DOMAIN issued
         ]_vars

\* C24 witness: getSession returned the second session at the very end of its
\* lifetime, after the first one had been destroyed.
C24_Witness ==
    /\ resp.op = "getSession"
    /\ resp.found # {}
    /\ Cardinality(DOMAIN issued) = 2
    /\ destroyed \cap DOMAIN issued # {}
    /\ resp.t = issued[resp.token].expiresAt

\* ------------------------------------------------- the server as a whole

\* the clock advance tried while logins and session calls go on: past the
\* lifetime of every session
FrameDeltas == { SESSION_EXPIRY_MS + 1 }

\* the calls made and the clock advances so far
Steps == Len(reqs) + Len(calls) + resp.n + ticks

\* login attempts from two addresses, verifyCredentials with the right
\* credentials, the session calls and the sweep, in any order, MaxReqs calls
\* and clock advances in all
NextFrame ==
    \/ Steps < MaxReqs /\ \E c \in Clients : LoginRateLimit(c)
    \/ Steps < MaxReqs /\ VerifyCredentials(Admin, Good)
    \/ \E i \in DOMAIN calls : VerifyCredentialsResume(i)
    \/ Steps < MaxReqs /\ CreateSession(0)
    \/ Steps < MaxReqs /\ \E id \in DOMAIN issued : GetSession(id)
    \/ Steps < MaxReqs /\ \E id \in DOMAIN issued : DestroySession(id)
    \/ Sweep
    \/ Steps < MaxReqs /\ \E d \in FrameDeltas : Tick(d)

SpecFrame == InitLogin /\ [][NextFrame]_vars

\* ----------------------------------------- the server as a whole: properties

Paths == { "/login", "/", "/collections", "/settings", "/editor/1" }

\* the element of each route of AppRoutes
Page(path) ==
    CASE path = "/login" -> "Login"
      [] path = "/" -> "Dashboard"
      [] path = "/collections" -> "Dashboard"
      [] path = "/settings" -> "Settings"
      [] path = "/editor/1" -> "Editor"

ProtectedPages == { "Dashboard", "Settings", "Editor" }

\* what is rendered: the loading view, a <Navigate>, or a page
LoadingView == <<"loading", "">>
Navigate(to) == <<"navigate", to>>
Shows(page) == <<"page", page>>

\* ProtectedRoute({ children }) in the state u
ProtectedRoute(u, children) ==
    IF u.isLoading THEN LoadingView
    ELSE IF ~u.isAuthenticated THEN Navigate("/login")
    ELSE Shows(children)

\* AppRoutes() in the state u
AppRoutes(u) ==
    IF u.isLoading THEN LoadingView
    ELSE IF u.path = "/login"
         THEN IF u.isAuthenticated THEN Navigate("/") ELSE Shows("Login")
    ELSE ProtectedRoute(u, Page(u.path))

\* how checkAuth ends: resolved to true, resolved to false, or rejected
CheckAuthOutcomes == { "true", "false", "reject" }

\* how apiLogin ends: resolved, or rejected with error.response.data.error
\* (the empty string stands for an error without that field)
ApiLoginOutcomes == { <<"resolve", "">>, <<"reject", "Invalid credentials">>, <<"reject", "">> }

\* how apiLogout ends
ApiLogoutOutcomes == { "resolve", "reject" }

Pending == [ pc |-> "awaiting", success |-> FALSE, error |-> "" ]

\* verifyAuth after `await checkAuth()`: try / catch / finally
VerifyAuthResume(outcome) ==
    /\ ui.verify = "awaiting"
    /\ ui' = [ui EXCEPT !.isAuthenticated = (outcome = "true"),
                        !.isLoading = FALSE,
                        !.verify = "done"]
    /\ UNCHANGED <<securityVars, clockVars, envVars, rateVars, sessionVars, credVars>>

\* Login.handleSubmit up to `await login(username, password)`, and login up
\* to `await apiLogin(username, password)`: the form is on the screen
LoginCall ==
    /\ Len(ui.logins) < MaxCalls
    /\ AppRoutes(ui) = Shows("Login")
    /\ ui' = [ui EXCEPT !.logins = Append(@, Pending)]
    /\ UNCHANGED <<securityVars, clockVars, envVars, rateVars, sessionVars, credVars>>

\* login after `await apiLogin(...)`, then the rest of handleSubmit:
\* navigate("/") on success, setError otherwise
LoginResume(i, outcome) ==
    /\ ui.logins[i].pc = "awaiting"
    /\ IF outcome[1] = "resolve"
       THEN ui' = [ui EXCEPT !.isAuthenticated = TRUE,
                             !.logins[i] = [ pc |-> "returned", success |-> TRUE,
                                             error |-> "" ],
                             !.path = "/"]
       ELSE ui' = [ui EXCEPT !.logins[i] =
                       [ pc |-> "returned", success |-> FALSE,
                         error |-> IF outcome[2] # "" THEN outcome[2]
                                   ELSE "Login failed" ]]
    /\ UNCHANGED <<securityVars, clockVars, envVars, rateVars, sessionVars, credVars>>

\* logout up to `await apiLogout()`; any component below the provider may call it
LogoutCall ==
    /\ Len(ui.logouts) < MaxCalls
    /\ ui' = [ui EXCEPT !.logouts = Append(@, Pending)]
    /\ UNCHANGED <<securityVars, clockVars, envVars, rateVars, sessionVars, credVars>>

\* logout without its finally block: the flag is cleared only when apiLogout resolved
LogoutResumeNoFinally(i, outcome) ==
    /\ ui.logouts[i].pc = "awaiting"
    /\ ui' = [ui EXCEPT !.isAuthenticated = IF outcome = "resolve" THEN FALSE ELSE @,
                        !.logouts[i].pc = IF outcome = "resolve" THEN "resolved"
                                          ELSE "rejected"]
    /\ UNCHANGED <<securityVars, clockVars, envVars, rateVars, sessionVars, credVars>>

\* logout after `await apiLogout()`: try / finally, so a rejection goes on to
\* the caller after setIsAuthenticated(false)
LogoutResume(i, outcome) ==
    /\ ui.logouts[i].pc = "awaiting"
    /\ ui' = [ui EXCEPT !.isAuthenticated = FALSE,
                        !.logouts[i].pc = IF outcome = "resolve" THEN "resolved"
                                          ELSE "rejected"]
    /\ UNCHANGED <<securityVars, clockVars, envVars, rateVars, sessionVars, credVars>>

\* the user opens another location
UserNavigates(path) ==
    /\ ui.navs < MaxOps
    /\ path # ui.path
    /\ ui' = [ui EXCEPT !.path = path, !.navs = @ + 1]
    /\ UNCHANGED <<securityVars, clockVars, envVars, rateVars, sessionVars, credVars>>

\* the router follows a rendered <Navigate to=... replace />
FollowNavigate ==
    /\ AppRoutes(ui)[1] = "navigate"
    /\ ui' = [ui EXCEPT !.path = AppRoutes(ui)[2]]
    /\ UNCHANGED <<securityVars, clockVars, envVars, rateVars, sessionVars, credVars>>

NextFrontend ==
    \/ \E outcome \in CheckAuthOutcomes : VerifyAuthResume(outcome)
    \/ LoginCall
    \/ \E i \in DOMAIN ui.logins : \E outcome \in ApiLoginOutcomes : LoginResume(i, outcome)
    \/ LogoutCall
    \/ \E i \in DOMAIN ui.logouts : \E outcome \in ApiLogoutOutcomes : LogoutResume(i, outcome)
    \/ \E path \in Paths : UserNavigates(path)
    \/ FollowNavigate

SpecFrontend == InitServing /\ [][NextFrontend]_vars

\* ------------------------------------------------------------------ C26
\* a logout call settles in this step
LogoutSettles ==
    \E i \in DOMAIN ui.logouts :
        /\ ui.logouts[i].pc = "awaiting"
        /\ ui'.logouts[i].pc \in { "resolved", "rejected" }

\* a login call ends in this step without success
LoginFails ==
    \E i \in DOMAIN ui.logins :
        /\ ui.logins[i].pc = "awaiting"
        /\ ui'.logins[i].pc # "awaiting"
        /\ ~ui'.logins[i].success

\* C26: after logout() settles isAuthenticated is false, whether apiLogout
\* resolved or rejected; a failed login() leaves isAuthenticated as it was
\* and returns success = false instead of throwing; a protected page
\* (Dashboard, Settings, Editor) is rendered only while isLoading is false
\* and isAuthenticated is true, and a protected location otherwise shows
\* the loading view or a redirect to /login.
C26_FrontendAuthState ==
    /\ [][LogoutSettles => ~ui'.isAuthenticated]_vars
    /\ [][LoginFails =>
            /\ ui'.isAuthenticated = ui.isAuthenticated
            /\ \A i \in DOMAIN ui.logins :
                   ui.logins[i].pc = "awaiting" /\ ui'.logins[i].pc # "awaiting"
                       => ui'.logins[i] \in [ pc : { "returned" }, success : { FALSE },
                                              error : { "Invalid credentials", "Login failed" } ]]_vars
    /\ [](\A i \in DOMAIN ui.logins : ui.logins[i].pc \in { "awaiting", "returned" })
    /\ [](AppRoutes(ui)[1] = "page" /\ AppRoutes(ui)[2] \in ProtectedPages
              => ~ui.isLoading /\ ui.isAuthenticated)
    /\ [](ui.path # "/login" /\ ~(~ui.isLoading /\ ui.isAuthenticated)
              => AppRoutes(ui) \in { LoadingView, Navigate("/login") })

\* a login failed and another succeeded, then a logout whose server call
\* was rejected has settled, and a protected location sends the user to /login
C26_Witness ==
    /\ \E i \in DOMAIN ui.logins : ui.logins[i].pc = "returned" /\ ~ui.logins[i].success
    /\ \E i \in DOMAIN ui.logins : ui.logins[i].pc = "returned" /\ ui.logins[i].success
    /\ \E i \in DOMAIN ui.logouts : ui.logouts[i].pc = "rejected"
    /\ ~ui.isAuthenticated
    /\ ui.path = "/settings"
    /\ AppRoutes(ui) = Navigate("/login")

====
